---- MODULE Spec2Model ----
(***************************************************************************)
(* Model of the claim-evaluation pipeline of the health news verification  *)
(* system: HealthCheckAgent.check_claim (agent.py), the two retrieval      *)
(* tools it calls, PubMedSearcher.search (pubmed_search.py) and            *)
(* GeminiClient.chat (gemini_client.py).                                   *)
(*                                                                         *)
(* Text is modelled as a sequence of string tokens; concatenation and      *)
(* "\n".join are sequence concatenation.  A Python exception is a record   *)
(* [type, msg] whose msg is the token sequence str(e) yields.              *)
(***************************************************************************)
EXTENDS Integers, Sequences, FiniteSets, TLC

VARIABLES
    client,             \* GeminiClient.client is set (the SDK client exists)
    pc,                 \* position of the current check_claim invocation
    claim,              \* check_claim's argument
    curated_serialized, \* check_claim local: curated evidence block
    pubmed_serialized,  \* check_claim local: literature evidence block
    user_content,       \* check_claim local: the user message
    result,             \* the dictionary check_claim returned
    escaped,            \* the exception that left check_claim, if any
    log,                \* calls made to the external collaborators, in order
    ppc,                \* position inside PubMedSearcher.search
    id_list,            \* search local: discovered identifiers
    articles,           \* search local: the fetched batch
    idx,                \* search local: next record of the batch to parse
    results,            \* search local: normalized records so far
    handles,            \* upstream handles this search opened and has not closed
    search_e,           \* search: the exception bound by its outer handler
    gemini_e,           \* check_claim: the exception bound by the Gemini handler
    collection,         \* the persistent Chroma collection: stored documents
    kb_op,              \* the last HealthKnowledgeBase call and what it gave
    bpc,                \* position of each process start in main()
    verdict             \* UI local: the verdict label read off the response

vars == << client, pc, claim, curated_serialized, pubmed_serialized,
           user_content, result, escaped, log, ppc, id_list, articles, idx,
           results, handles, search_e, gemini_e, collection, kb_op, bpc,
           verdict >>

agentVars == << claim, curated_serialized, pubmed_serialized, user_content,
                result, escaped, gemini_e >>

searchVars == << ppc, id_list, articles, idx, results, handles, search_e >>

kbVars == << collection, kb_op, bpc >>

----------------------------------------------------------------------------
(* Bounds of the model *)

\* longest batch of records a fetch response holds
MaxBatch == 3

(* Program constants *)

TOP_K_RESULTS == 2
PUBMED_MAX_RESULTS == 3
AuthorLimit == 3
AbstractLimit == 500

----------------------------------------------------------------------------
(* Values *)

NoException == [type |-> "none", msg |-> <<>>]

\* The process starts (CLI runs, UI initializations) the model follows
Procs == {1, 2}

\* A process that has not started: the entry point it runs (main.py or
\* app.py), its position in it, and whether this start indexed the seed set
NotStarted == [kind |-> "none", at |-> "off", indexed |-> FALSE]

\* The UI has read no verdict off a response
NotParsed == "<not parsed>"

\* No HealthKnowledgeBase call has been made yet
NoKbOp ==
    [op |-> "none", myths |-> <<>>, query |-> "", k |-> 0, found |-> <<>>,
     count |-> 0, raised |-> NoException]

\* Nonempty sequences over S of length at most n, and the empty one
RECURSIVE SeqsUpTo(_, _)
SeqsUpTo(S, n) ==
    IF n = 0 THEN {<<>>}
    ELSE LET shorter == SeqsUpTo(S, n - 1)
         IN  shorter \cup {Append(s, x) : s \in shorter, x \in S}

\* str.join over a sequence of texts
RECURSIVE Join(_, _)
Join(sep, texts) ==
    IF texts = <<>> THEN <<>>
    ELSE IF Len(texts) = 1 THEN Head(texts)
    ELSE Head(texts) \o sep \o Join(sep, Tail(texts))

\* needle occurs in text as a contiguous run of tokens (Python's `in`)
Contains(text, needle) ==
    \E i \in 0..(Len(text) - Len(needle)) :
        \A j \in 1..Len(needle) : text[i + j] = needle[j]

\* Classes derived from Exception that the collaborators raise
ExceptionClasses ==
    {"RuntimeError", "ValueError", "KeyError", "AttributeError", "TypeError",
     "OSError", "HTTPError", "ClientError", "ServerError"}

Claims == {"hot water cures malaria", ""}


----------------------------------------------------------------------------
(* HealthKnowledgeBase.search: what the vector store may answer *)

KbDocs ==
    { [page_content |-> <<"Health Claim: hot water cures malaria">>,
       metadata |-> <<"{'verdict': 'FALSE', 'confidence': 95}">>],
      [page_content |-> <<"Health Claim: sugar causes diabetes">>,
       metadata |-> <<"{'verdict': 'PARTIALLY TRUE', 'confidence': 80}">>] }

\* similarity_search(query, k) answers with at most k documents
KbResults(k) == SeqsUpTo(KbDocs, k)

\* embedding-provider and vector-store failures of similarity_search
KbErrors ==
    { [type |-> "RuntimeError", msg |-> <<"EmbeddingUnavailable">>],
      [type |-> "OSError", msg |-> <<"StoreUnavailable">>] }

----------------------------------------------------------------------------
(* The retrieval tools of HealthCheckAgent._create_tools *)

CuratedFallback == <<"No matching health myths found in curated database.">>

PubmedFallback == <<"No PubMed results found for this query.">>

CuratedSection(i, doc) ==
    << <<"--- Curated Knowledge Result ", ToString(i), " ---">>,
       doc.page_content,
       <<"Metadata: ">> \o doc.metadata,
       <<>> >>

RECURSIVE FormatCuratedFrom(_, _)
FormatCuratedFrom(i, docs) ==
    IF i > Len(docs) THEN <<>>
    ELSE CuratedSection(i, docs[i]) \o FormatCuratedFrom(i + 1, docs)

\* search_curated_health_myths, given what knowledge_base.search returned:
\* the (serialized, documents) pair
FormatCurated(docs) ==
    IF docs = <<>> THEN [serialized |-> CuratedFallback, docs |-> <<>>]
    ELSE [serialized |-> Join(<<"\n">>, FormatCuratedFrom(1, docs)),
          docs |-> docs]

\* Mutant of PubmedSection: the identifier and the url are left out
PubmedSectionWithoutIdentifier(i, paper) ==
    << <<"--- PubMed Result ", ToString(i), " ---">>,
       <<"Title: ">> \o paper.title,
       <<"Authors: ">> \o paper.authors,
       <<"Journal: ">> \o paper.journal \o <<" (">> \o paper.year \o <<")">>,
       <<"Abstract: ">> \o paper.abstract,
       <<>> >>

PubmedSection(i, paper) ==
    << <<"--- PubMed Result ", ToString(i), " ---">>,
       <<"Title: ">> \o paper.title,
       <<"Authors: ">> \o paper.authors,
       <<"Journal: ">> \o paper.journal \o <<" (">> \o paper.year \o <<")">>,
       <<"PMID: ">> \o paper.pmid,
       <<"URL: ">> \o paper.url,
       <<"Abstract: ">> \o paper.abstract,
       <<>> >>

RECURSIVE FormatPubmedFrom(_, _)
FormatPubmedFrom(i, papers) ==
    IF i > Len(papers) THEN <<>>
    ELSE PubmedSection(i, papers[i]) \o FormatPubmedFrom(i + 1, papers)

PubmedDocument(p) ==
    [page_content |-> p.title \o <<"\n\n">> \o p.abstract,
     metadata |-> [pmid |-> p.pmid, journal |-> p.journal, year |-> p.year,
                   url |-> p.url]]

\* search_pubmed_research, given what pubmed_searcher.search returned
FormatPubmed(papers) ==
    IF papers = <<>> THEN [serialized |-> PubmedFallback, docs |-> <<>>]
    ELSE [serialized |-> Join(<<"\n">>, FormatPubmedFrom(1, papers)),
          docs |-> [i \in 1..Len(papers) |-> PubmedDocument(papers[i])]]

----------------------------------------------------------------------------
(* Records of a fetched batch.  The nested dictionaries of a PubmedArticle *)
(* are flattened: one field per key the parser looks up.                   *)

\* An author of AuthorList; a collective author has neither name part
Author(last, initials) ==
    [hasLastName |-> TRUE, LastName |-> last,
     hasInitials |-> TRUE, Initials |-> initials]

CollectiveAuthor ==
    [hasLastName |-> FALSE, LastName |-> "",
     hasInitials |-> FALSE, Initials |-> ""]

FullArticle ==
    [hasMedlineCitation |-> TRUE,      \* 'MedlineCitation' in article
     hasArticle |-> TRUE,              \* 'Article' in medline
     hasPMID |-> TRUE,                 \* 'PMID' in medline
     PMID |-> "31415926",
     hasAuthorList |-> TRUE,
     AuthorList |-> << Author("Okafor", "C"), Author("Bello", "AM") >>,
     Abstract |-> "list",              \* absent | list | str | notmapping
     abstractId |-> "abstract-1",      \* names the upstream abstract text
     abstractLen |-> 120,              \* its length in characters
     Journal |-> "mapping",            \* absent | mapping | notmapping
     hasJournalTitle |-> TRUE,
     JournalTitle |-> "Malaria Journal",
     pubDateDepth |-> 3,               \* 0: no JournalIssue, 1: no PubDate,
                                       \* 2: no Year, 3: Year present
     Year |-> "2019",
     hasArticleTitle |-> TRUE,
     ArticleTitle |-> "Hot water and malaria"]

SparseArticle ==
    [FullArticle EXCEPT !.PMID = "27182818", !.hasAuthorList = FALSE,
                        !.AuthorList = <<>>, !.Abstract = "absent",
                        !.abstractLen = 0, !.Journal = "absent",
                        !.hasArticleTitle = FALSE]

\* The shapes a fetched record is drawn from
SampleArticles ==
    { FullArticle,
      SparseArticle,
      [FullArticle EXCEPT !.hasMedlineCitation = FALSE],
      [FullArticle EXCEPT !.hasArticle = FALSE],
      [FullArticle EXCEPT !.hasPMID = FALSE],
      [SparseArticle EXCEPT !.Abstract = "notmapping"] }

\* lines 66-74: the authors string
RECURSIVE AuthorNames(_)
AuthorNames(authors) ==
    IF authors = <<>> THEN <<>>
    ELSE LET a == Head(authors)
         IN  (IF a.hasLastName /\ a.hasInitials
              THEN << <<a.LastName, " ", a.Initials>> >>
              ELSE <<>>) \o AuthorNames(Tail(authors))

AuthorsStr(a) ==
    LET listed == IF a.hasAuthorList
                  THEN SubSeq(a.AuthorList, 1,
                              IF Len(a.AuthorList) < AuthorLimit
                              THEN Len(a.AuthorList) ELSE AuthorLimit)
                  ELSE <<>>
        joined == Join(<<", ">>, AuthorNames(listed))
        all    == IF a.hasAuthorList THEN a.AuthorList ELSE <<>>
        str    == IF Len(all) > AuthorLimit THEN joined \o <<", et al.">>
                  ELSE joined
    IN  IF str = <<>> THEN <<"Unknown authors">> ELSE str

\* Mutant of AbstractStr: an abstract of exactly AbstractLimit characters is
\* cut and marked too
AbstractStrCutAtLimit(a) ==
    LET len  == IF a.Abstract \in {"list", "str"} THEN a.abstractLen ELSE 0
        kept == IF len >= AbstractLimit THEN AbstractLimit ELSE len
        text == IF kept = 0 THEN <<>>
                ELSE <<a.abstractId, "[:", ToString(kept), "]">>
    IN  IF len >= AbstractLimit THEN text \o <<"...">> ELSE text

\* lines 77-83 and 94: the abstract, cut at AbstractLimit characters
AbstractStr(a) ==
    LET len  == IF a.Abstract \in {"list", "str"} THEN a.abstractLen ELSE 0
        kept == IF len > AbstractLimit THEN AbstractLimit ELSE len
        text == IF kept = 0 THEN <<>>
                ELSE <<a.abstractId, "[:", ToString(kept), "]">>
    IN  IF len > AbstractLimit THEN text \o <<"...">> ELSE text

\* line 86
JournalStr(a) ==
    IF a.Journal = "mapping" /\ a.hasJournalTitle THEN <<a.JournalTitle>>
    ELSE <<"Unknown Journal">>

\* line 87
YearStr(a) ==
    IF a.Journal = "mapping" /\ a.pubDateDepth = 3 THEN <<a.Year>>
    ELSE <<"N/A">>

\* Mutant of ParseError: the year is read by indexing, so a record without
\* Journal, JournalIssue or PubDate raises
ParseErrorIndexingYear(a) ==
    IF ~a.hasMedlineCitation
    THEN [type |-> "KeyError", msg |-> <<"'MedlineCitation'">>]
    ELSE IF ~a.hasArticle
    THEN [type |-> "KeyError", msg |-> <<"'Article'">>]
    ELSE IF a.Abstract = "notmapping" \/ a.Journal = "notmapping"
    THEN [type |-> "AttributeError", msg |-> <<"object has no attribute 'get'">>]
    ELSE IF a.Journal = "absent" \/ a.pubDateDepth < 2
    THEN [type |-> "KeyError", msg |-> <<"'PubDate'">>]
    ELSE IF ~a.hasPMID
    THEN [type |-> "KeyError", msg |-> <<"'PMID'">>]
    ELSE NoException

\* Mutant of ParseError: the identifier is read with a default, so a record
\* without PMID does not raise
ParseErrorDefaultingPMID(a) ==
    IF ~a.hasMedlineCitation
    THEN [type |-> "KeyError", msg |-> <<"'MedlineCitation'">>]
    ELSE IF ~a.hasArticle
    THEN [type |-> "KeyError", msg |-> <<"'Article'">>]
    ELSE IF a.Abstract = "notmapping" \/ a.Journal = "notmapping"
    THEN [type |-> "AttributeError", msg |-> <<"object has no attribute 'get'">>]
    ELSE NoException

\* The statement of the record loop that raises on this record, if any
ParseError(a) ==
    IF ~a.hasMedlineCitation
    THEN [type |-> "KeyError", msg |-> <<"'MedlineCitation'">>]
    ELSE IF ~a.hasArticle
    THEN [type |-> "KeyError", msg |-> <<"'Article'">>]
    ELSE IF a.Abstract = "notmapping" \/ a.Journal = "notmapping"
    THEN [type |-> "AttributeError", msg |-> <<"object has no attribute 'get'">>]
    ELSE IF ~a.hasPMID
    THEN [type |-> "KeyError", msg |-> <<"'PMID'">>]
    ELSE NoException

\* lines 92-100: the normalized record
Paper(a) ==
    [title    |-> IF a.hasArticleTitle THEN <<a.ArticleTitle>>
                  ELSE <<"No title">>,
     abstract |-> AbstractStr(a),
     authors  |-> AuthorsStr(a),
     journal  |-> JournalStr(a),
     year     |-> YearStr(a),
     pmid     |-> <<a.PMID>>,
     url      |-> <<"https://pubmed.ncbi.nlm.nih.gov/", a.PMID, "/">>]

----------------------------------------------------------------------------
(* GeminiClient.chat *)

GEMINI_MODEL == "gemini-2.5-flash"

SystemPrompt == <<"You are a health misinformation detection system ...">>

\* chat, line 54
NoClientError ==
    [type |-> "RuntimeError",
     msg |-> <<"google-genai package not installed. Install with: pip install google-genai">>]

\* What generate_content may raise
GenerateErrors ==
    { [type |-> "ClientError", msg |-> <<"404", " NOT_FOUND. models/x is not found">>],
      [type |-> "ClientError", msg |-> <<"Model ", "Not Found">>],
      [type |-> "ServerError", msg |-> <<"503 UNAVAILABLE">>],
      [type |-> "ValueError", msg |-> <<>>] }

\* str.lower on a token
Lower(tok) == IF tok = "Not Found" THEN "not found" ELSE tok

\* line 73: "404" in err_text or "not found" in err_text.lower()
ModelNotFound(e) ==
    \/ Contains(e.msg, <<"404">>)
    \/ Contains([i \in 1..Len(e.msg) |-> Lower(e.msg[i])], <<"not found">>)

\* What client.models.list() may answer inside _list_models
ModelListings ==
    { [raises |-> TRUE, names |-> <<>>],
      [raises |-> FALSE, names |-> <<>>],
      [raises |-> FALSE, names |-> <<"models/gemini-2.5-flash">>],
      [raises |-> FALSE,
       names |-> <<"models/a", "models/b", "models/c", "models/d",
                   "models/e", "models/f">>] }

\* _list_models: the names, or [] when listing raised
ListModels(listing) == IF listing.raises THEN <<>> ELSE listing.names

\* lines 74-83: the error raised in place of a model-not-found failure
NotFoundError(available) ==
    LET first5 == SubSeq(available, 1,
                         IF Len(available) < 5 THEN Len(available) ELSE 5)
        sample == IF available # <<>>
                  THEN Join(<<", ">>, [i \in 1..Len(first5) |-> <<first5[i]>>])
                  ELSE <<"(could not fetch models)">>
    IN  [type |-> "RuntimeError",
         msg |-> <<"Model ", GEMINI_MODEL,
                   " not found or not supported for generate_content. ",
                   "Available models (sample): ">> \o sample
                 \o <<". Try setting GEMINI_MODEL to a supported model like 'gemini-2.5-flash'">>]

\* lines 69-84: what chat raises when generate_content raised e
ChatError(e, listing) ==
    IF ModelNotFound(e) THEN NotFoundError(ListModels(listing)) ELSE e

\* Mutant of ChatRequests: a failed request is sent once more
ChatRequestsWithRetry(prompt, e) ==
    << [op |-> "generate_content", arg |-> prompt],
       [op |-> "generate_content", arg |-> prompt] >>
    \o (IF ModelNotFound(e) THEN << [op |-> "models.list", arg |-> <<>>] >>
        ELSE <<>>)

\* The requests chat sends to the model service when generate_content raised e
ChatRequests(prompt, e) ==
    << [op |-> "generate_content", arg |-> prompt] >>
    \o (IF ModelNotFound(e) THEN << [op |-> "models.list", arg |-> <<>>] >>
        ELSE <<>>)

\* The responses generate_content may return.  text is `.text` ("" when it
\* is None or empty); output is what getattr(response, "output", None)
\* gives; first is content[0] of outputs[0].
GeminiResponses ==
    { [hasText |-> TRUE, text |-> <<"**Verdict:** FALSE", " ... ">>,
       output |-> "absent", first |-> "none", firstText |-> <<>>],
      [hasText |-> TRUE, text |-> <<>>,
       output |-> "absent", first |-> "none", firstText |-> <<>>],
      [hasText |-> FALSE, text |-> <<>>,
       output |-> "empty", first |-> "none", firstText |-> <<>>],
      [hasText |-> FALSE, text |-> <<>>,
       output |-> "notmappings", first |-> "none", firstText |-> <<>>],
      [hasText |-> TRUE, text |-> <<>>,
       output |-> "mappings", first |-> "none", firstText |-> <<>>],
      [hasText |-> TRUE, text |-> <<>>,
       output |-> "mappings", first |-> "dict",
       firstText |-> <<"**Verdict:** TRUE">>],
      [hasText |-> TRUE, text |-> <<>>,
       output |-> "mappings", first |-> "dict", firstText |-> <<>>],
      [hasText |-> TRUE, text |-> <<>>,
       output |-> "mappings", first |-> "other",
       firstText |-> <<"Part(text='...')">>] }

\* lines 86-108: the text chat returns for a response
ExtractText(r) ==
    IF r.hasText /\ r.text # <<>> THEN r.text
    ELSE IF r.output \in {"absent", "empty"} THEN <<>>
    ELSE IF r.output = "notmappings" THEN <<"str(response)">>
    ELSE IF r.first = "none" THEN <<>>
    ELSE r.firstText

----------------------------------------------------------------------------
(* HealthCheckAgent.check_claim *)

\* Mutant of CatchesException: the handlers name one class only
CatchesRuntimeErrorOnly(e) == e.type = "RuntimeError"

\* except Exception: every class derived from Exception is caught
CatchesException(e) == e.type \in ExceptionClasses

\* Mutant of UserContent: the literature block is put before the curated one
UserContentLiteratureFirst(c, cur, pub) ==
    <<c, "\n\nContext:\n", "\n\nPUBMED_RESULTS:\n">> \o pub
    \o <<"\nCURATED_KNOWLEDGE:\n">> \o cur \o <<"\n">>

\* lines 213-223
UserContent(c, cur, pub) ==
    <<c, "\n\nContext:\n", "\nCURATED_KNOWLEDGE:\n">> \o cur
    \o <<"\n\nPUBMED_RESULTS:\n">> \o pub \o <<"\n">>

\* line 58 of chat
Prompt(content) == SystemPrompt \o <<"\n\n">> \o content

\* Mutant of GeminiErrorText: the message of the failure is left out
GeminiErrorTextWithoutMessage(e) == <<"Error calling Gemini">>

\* line 235
GeminiErrorText(e) == <<"Error calling Gemini: ">> \o e.msg

\* Mutant of ResultDict: the exchange is handed back as message history
ResultDictKeepingMessages(c, response_text) ==
    [claim |-> c, response |-> response_text, messages |-> <<c, response_text>>]

\* line 237
ResultDict(c, response_text) ==
    [claim |-> c, response |-> response_text, messages |-> <<>>]

NoResult == [claim |-> "", response |-> <<"<no result>">>, messages |-> <<"<no result>">>]

Call(op, arg) == [op |-> op, arg |-> arg]

----------------------------------------------------------------------------
(* PubMedSearcher.search *)

RATE_LIMIT_DELAY == <<"0.34">>

\* What Entrez.read may return for the discovery response
Discoveries ==
    { [hasIdList |-> FALSE, IdList |-> <<>>],
      [hasIdList |-> TRUE, IdList |-> <<>>],
      [hasIdList |-> TRUE, IdList |-> <<"31415926">>],
      [hasIdList |-> TRUE, IdList |-> <<"31415926", "27182818">>] }

\* What Entrez.read may return for the fetch response
FetchResponses ==
    { [hasPubmedArticle |-> FALSE, PubmedArticle |-> <<>>] }
    \cup { [hasPubmedArticle |-> TRUE, PubmedArticle |-> batch] :
             batch \in SeqsUpTo(SampleArticles, MaxBatch) }

\* Network and protocol failures of an upstream call or of reading its answer
UpstreamErrors ==
    { [type |-> "HTTPError", msg |-> <<"HTTP Error 429: Too Many Requests">>],
      [type |-> "ValueError", msg |-> <<"malformed response">>] }

\* Failures of the tool invocation itself, around the search it wraps
ToolErrors ==
    { [type |-> "ValueError", msg |-> <<"too many values to unpack (expected 2)">>] }

\* line 40
IdListOf(search_results) ==
    IF search_results.hasIdList THEN search_results.IdList ELSE <<>>

\* Mutant of AfterDiscovery: the fetch follows discovery with no delay
AfterDiscoveryWithoutDelay(ids) == IF ids = <<>> THEN "return" ELSE "efetch"

\* lines 42-46: where search goes once the identifiers are known
AfterDiscovery(ids) == IF ids = <<>> THEN "return" ELSE "sleep"

\* Mutant of ParseStep: a record that fails to parse discards the batch
ParseStepDiscardingBatch(rs, a) ==
    IF ParseError(a) = NoException THEN Append(rs, Paper(a)) ELSE <<>>

\* lines 61-104: one turn of the record loop
ParseStep(rs, a) ==
    IF ParseError(a) = NoException THEN Append(rs, Paper(a)) ELSE rs

\* Mutant of SearchFails: the outer handler lets the exception through
SearchFailsReraising(e) ==
    /\ ppc' = "raised" /\ results' = results /\ search_e' = search_e
    /\ escaped' = e

\* lines 108-110: an exception reaches the handler around the whole body
SearchFails(e) ==
    /\ IF CatchesException(e)
       THEN ppc' = "return" /\ results' = <<>> /\ search_e' = e
            /\ escaped' = escaped
       ELSE ppc' = "raised" /\ results' = results /\ search_e' = search_e
            /\ escaped' = e

Esearch ==
    /\ pc = "pubmed" /\ ppc = "esearch"
    /\ log' = log \o << Call("pubmed.search", <<claim>>),
                        Call("esearch", <<claim, ToString(PUBMED_MAX_RESULTS)>>) >>
    /\ ppc' = "read_search"
    /\ handles' = handles \cup {"search_handle"}
    /\ UNCHANGED << kbVars, verdict, client, pc, claim, curated_serialized, pubmed_serialized,
                    user_content, result, escaped, gemini_e, id_list,
                    articles, idx, results, search_e >>

EsearchRaises ==
    /\ pc = "pubmed" /\ ppc = "esearch"
    /\ log' = log \o << Call("pubmed.search", <<claim>>),
                        Call("esearch", <<claim, ToString(PUBMED_MAX_RESULTS)>>) >>
    /\ \E e \in UpstreamErrors : SearchFails(e)
    /\ UNCHANGED << kbVars, verdict, client, pc, claim, curated_serialized, pubmed_serialized,
                    user_content, result, gemini_e, id_list, articles, idx,
                    handles >>

ReadSearch ==
    /\ pc = "pubmed" /\ ppc = "read_search"
    /\ \E search_results \in Discoveries :
         /\ id_list' = IdListOf(search_results)
         /\ ppc' = AfterDiscovery(IdListOf(search_results))
    /\ handles' = handles \ {"search_handle"}
    /\ UNCHANGED << kbVars, verdict, client, pc, claim, curated_serialized, pubmed_serialized,
                    user_content, result, escaped, gemini_e, log, articles,
                    idx, results, search_e >>

ReadSearchRaises ==
    /\ pc = "pubmed" /\ ppc = "read_search"
    /\ \E e \in UpstreamErrors : SearchFails(e)
    /\ UNCHANGED << kbVars, verdict, client, pc, claim, curated_serialized, pubmed_serialized,
                    user_content, result, gemini_e, log, id_list, articles,
                    idx, handles >>

Sleep ==
    /\ pc = "pubmed" /\ ppc = "sleep"
    /\ log' = Append(log, Call("sleep", RATE_LIMIT_DELAY))
    /\ ppc' = "efetch"
    /\ UNCHANGED << kbVars, verdict, client, pc, claim, curated_serialized, pubmed_serialized,
                    user_content, result, escaped, gemini_e, id_list,
                    articles, idx, results, handles, search_e >>

Efetch ==
    /\ pc = "pubmed" /\ ppc = "efetch"
    /\ log' = Append(log, Call("efetch", id_list))
    /\ ppc' = "read_fetch"
    /\ handles' = handles \cup {"fetch_handle"}
    /\ UNCHANGED << kbVars, verdict, client, pc, claim, curated_serialized, pubmed_serialized,
                    user_content, result, escaped, gemini_e, id_list,
                    articles, idx, results, search_e >>

EfetchRaises ==
    /\ pc = "pubmed" /\ ppc = "efetch"
    /\ log' = Append(log, Call("efetch", id_list))
    /\ \E e \in UpstreamErrors : SearchFails(e)
    /\ UNCHANGED << kbVars, verdict, client, pc, claim, curated_serialized, pubmed_serialized,
                    user_content, result, gemini_e, id_list, articles, idx,
                    handles >>

\* lines 55-60: the batch is read, the handle closed, the record loop entered;
\* a response without 'PubmedArticle' raises KeyError at line 60
ReadFetch ==
    /\ pc = "pubmed" /\ ppc = "read_fetch"
    /\ handles' = handles \ {"fetch_handle"}
    /\ \E resp \in FetchResponses :
         IF resp.hasPubmedArticle
         THEN /\ articles' = resp.PubmedArticle
              /\ idx' = 1
              /\ results' = <<>>
              /\ ppc' = "parse"
              /\ UNCHANGED << search_e, escaped >>
         ELSE /\ SearchFails([type |-> "KeyError", msg |-> <<"'PubmedArticle'">>])
              /\ UNCHANGED << articles, idx >>
    /\ UNCHANGED << kbVars, verdict, client, pc, claim, curated_serialized, pubmed_serialized,
                    user_content, result, gemini_e, log, id_list >>

ReadFetchRaises ==
    /\ pc = "pubmed" /\ ppc = "read_fetch"
    /\ \E e \in UpstreamErrors : SearchFails(e)
    /\ UNCHANGED << kbVars, verdict, client, pc, claim, curated_serialized, pubmed_serialized,
                    user_content, result, gemini_e, log, id_list, articles,
                    idx, handles >>

ParseRecord ==
    /\ pc = "pubmed" /\ ppc = "parse" /\ idx <= Len(articles)
    /\ results' = ParseStep(results, articles[idx])
    /\ idx' = idx + 1
    /\ UNCHANGED << kbVars, verdict, client, pc, claim, curated_serialized, pubmed_serialized,
                    user_content, result, escaped, gemini_e, log, ppc,
                    id_list, articles, handles, search_e >>

\* line 106
SearchReturns ==
    /\ pc = "pubmed" /\ ppc = "parse" /\ idx > Len(articles)
    /\ ppc' = "return"
    /\ UNCHANGED << kbVars, verdict, client, pc, claim, curated_serialized, pubmed_serialized,
                    user_content, result, escaped, gemini_e, log, id_list,
                    articles, idx, results, handles, search_e >>

----------------------------------------------------------------------------
(* The steps of check_claim *)

Init ==
    /\ client \in BOOLEAN
    /\ pc = "idle"
    /\ claim = ""
    /\ curated_serialized = <<>>
    /\ pubmed_serialized = <<>>
    /\ user_content = <<>>
    /\ result = NoResult
    /\ escaped = NoException
    /\ gemini_e = NoException
    /\ log = <<>>
    /\ ppc = "off"
    /\ id_list = <<>>
    /\ articles = <<>>
    /\ idx = 0
    /\ results = <<>>
    /\ handles = {}
    /\ search_e = NoException
    /\ collection = <<>>
    /\ kb_op = NoKbOp
    /\ bpc = [p \in Procs |-> NotStarted]
    /\ verdict = NotParsed

\* lines 184-196: a caller invokes check_claim(c)
CheckClaim ==
    /\ pc \in {"idle", "done"}
    /\ \E c \in Claims : claim' = c
    /\ pc' = "curated"
    /\ curated_serialized' = <<>>
    /\ pubmed_serialized' = <<>>
    /\ user_content' = <<>>
    /\ result' = NoResult
    /\ gemini_e' = NoException
    /\ log' = <<>>
    /\ UNCHANGED << kbVars, verdict, client, escaped, ppc, id_list, articles, idx, results,
                    handles, search_e >>

\* The locals of a search call that is about to start
EnterSearch ==
    /\ ppc' = "esearch"
    /\ id_list' = <<>>
    /\ articles' = <<>>
    /\ idx' = 0
    /\ results' = <<>>
    /\ handles' = {}
    /\ search_e' = NoException

\* lines 200-202 with 64-78: the curated tool returns
CuratedSearchReturns ==
    /\ pc = "curated"
    /\ \E docs \in KbResults(TOP_K_RESULTS) :
         /\ curated_serialized' = FormatCurated(docs).serialized
         /\ log' = log \o << Call("kb.search", <<claim>>),
                             Call("kb.search.return", <<>>) >>
    /\ pc' = "pubmed"
    /\ EnterSearch
    /\ UNCHANGED << kbVars, verdict, client, claim, pubmed_serialized, user_content, result,
                    escaped, gemini_e >>

\* Mutant of CuratedSearchRaises: one handler around both searches, so a
\* curated failure skips the literature search
CuratedSearchRaisesSkippingPubmed ==
    /\ pc = "curated"
    /\ \E e \in KbErrors :
         log' = log \o << Call("kb.search", <<claim>>),
                          Call("kb.search.raise", e.msg) >>
    /\ curated_serialized' = CuratedFallback
    /\ pubmed_serialized' = PubmedFallback
    /\ user_content' = UserContent(claim, CuratedFallback, PubmedFallback)
    /\ pc' = "gemini"
    /\ UNCHANGED << kbVars, verdict, client, claim, result, escaped, gemini_e, ppc, id_list,
                    articles, idx, results, handles, search_e >>

\* Mutant of CuratedSearchRaises: no handler around the curated search
CuratedSearchRaisesUncaught ==
    /\ pc = "curated"
    /\ \E e \in KbErrors :
         /\ log' = log \o << Call("kb.search", <<claim>>),
                             Call("kb.search.raise", e.msg) >>
         /\ escaped' = e
    /\ pc' = "raised"
    /\ UNCHANGED << kbVars, verdict, client, claim, curated_serialized, pubmed_serialized,
                    user_content, result, gemini_e, ppc, id_list, articles,
                    idx, results, handles, search_e >>

\* lines 200-204: knowledge_base.search raises inside the curated tool
CuratedSearchRaises ==
    /\ pc = "curated"
    /\ \E e \in KbErrors :
         /\ log' = log \o << Call("kb.search", <<claim>>),
                             Call("kb.search.raise", e.msg) >>
         /\ IF CatchesException(e)
            THEN /\ curated_serialized' = CuratedFallback
                 /\ pc' = "pubmed"
                 /\ EnterSearch
                 /\ escaped' = escaped
            ELSE /\ pc' = "raised"
                 /\ escaped' = e
                 /\ UNCHANGED << curated_serialized, ppc, id_list, articles,
                                 idx, results, handles, search_e >>
    /\ UNCHANGED << kbVars, verdict, client, claim, pubmed_serialized, user_content, result,
                    gemini_e >>

\* The search locals go out of scope
LeaveSearch ==
    /\ ppc' = "off"
    /\ id_list' = <<>>
    /\ articles' = <<>>
    /\ idx' = 0
    /\ results' = <<>>

\* lines 206-208 with 96-127, then 213-223: the literature tool returns and
\* the user message is built
PubmedToolReturns ==
    /\ pc = "pubmed" /\ ppc = "return"
    /\ pubmed_serialized' = FormatPubmed(results).serialized
    /\ user_content' = UserContent(claim, curated_serialized,
                                   FormatPubmed(results).serialized)
    /\ log' = Append(log, Call("pubmed.search.return", <<>>))
    /\ pc' = "gemini"
    /\ LeaveSearch
    /\ UNCHANGED << kbVars, verdict, client, claim, curated_serialized, result, escaped,
                    gemini_e, handles, search_e >>

\* lines 206-210, then 213-223: the literature tool invocation raises (the
\* search itself let an exception out, or the invocation around it failed)
PubmedToolRaises ==
    /\ pc = "pubmed" /\ ppc \in {"return", "raised"}
    /\ \E e \in (IF ppc = "raised" THEN {escaped} ELSE ToolErrors) :
         /\ log' = Append(log, Call("pubmed.search.raise", e.msg))
         /\ IF CatchesException(e)
            THEN /\ pubmed_serialized' = PubmedFallback
                 /\ user_content' = UserContent(claim, curated_serialized,
                                                PubmedFallback)
                 /\ pc' = "gemini"
                 /\ escaped' = NoException
            ELSE /\ pc' = "raised"
                 /\ escaped' = e
                 /\ UNCHANGED << pubmed_serialized, user_content >>
    /\ LeaveSearch
    /\ UNCHANGED << kbVars, verdict, client, claim, curated_serialized, result, gemini_e,
                    handles, search_e >>

\* lines 233-237: the Gemini handler, then the return statement
ChatRaised(e) ==
    IF CatchesException(e)
    THEN /\ gemini_e' = e
         /\ result' = ResultDict(claim, GeminiErrorText(e))
         /\ pc' = "done"
         /\ escaped' = escaped
    ELSE /\ pc' = "raised"
         /\ escaped' = e
         /\ UNCHANGED << gemini_e, result >>

\* lines 226-228 with chat lines 53-56: there is no SDK client
ChatNoClient ==
    /\ pc = "gemini" /\ ~client
    /\ ChatRaised(NoClientError)
    /\ UNCHANGED << kbVars, verdict, client, claim, curated_serialized, pubmed_serialized,
                    user_content, log, ppc, id_list, articles, idx, results,
                    handles, search_e >>

\* lines 226-232 and 237 with chat lines 58-68 and 86-108
GenerateContentReturns ==
    /\ pc = "gemini" /\ client
    /\ log' = Append(log, Call("generate_content", Prompt(user_content)))
    /\ \E response \in GeminiResponses :
         result' = ResultDict(claim, ExtractText(response))
    /\ pc' = "done"
    /\ UNCHANGED << kbVars, verdict, client, claim, curated_serialized, pubmed_serialized,
                    user_content, escaped, gemini_e, ppc, id_list, articles,
                    idx, results, handles, search_e >>

\* lines 226-237 with chat lines 58-84
GenerateContentRaises ==
    /\ pc = "gemini" /\ client
    /\ \E e \in GenerateErrors, listing \in ModelListings :
         /\ log' = log \o ChatRequests(Prompt(user_content), e)
         /\ ChatRaised(ChatError(e, listing))
    /\ UNCHANGED << kbVars, verdict, client, claim, curated_serialized, pubmed_serialized,
                    user_content, ppc, id_list, articles, idx, results,
                    handles, search_e >>

Next ==
    \/ CheckClaim
    \/ CuratedSearchReturns
    \/ CuratedSearchRaises
    \/ Esearch
    \/ EsearchRaises
    \/ ReadSearch
    \/ ReadSearchRaises
    \/ Sleep
    \/ Efetch
    \/ EfetchRaises
    \/ ReadFetch
    \/ ReadFetchRaises
    \/ ParseRecord
    \/ SearchReturns
    \/ PubmedToolReturns
    \/ PubmedToolRaises
    \/ ChatNoClient
    \/ GenerateContentReturns
    \/ GenerateContentRaises

Spec == Init /\ [][Next]_vars

----------------------------------------------------------------------------
(* Properties *)

HasCall(op) == \E i \in 1..Len(log) : log[i].op = op

CallsOf(ops) == SelectSeq(log, LAMBDA c : c.op \in ops)

OpsOf(calls) == [i \in 1..Len(calls) |-> calls[i].op]

InCall == pc \in {"curated", "pubmed", "gemini"}

\* C1: check_claim never raises: whatever the curated search, the PubMed
\* search and the reasoning call do, no exception leaves the call, the call
\* can always take its next step, and it ends by returning a result
\* dictionary holding the claim, a response and an empty message list.
C1_NeverRaises ==
    /\ pc # "raised"
    /\ escaped = NoException \/ ppc = "raised"
    /\ InCall => ENABLED Next
    /\ pc = "done" =>
         /\ result # NoResult
         /\ DOMAIN result = {"claim", "response", "messages"}
         /\ result.claim = claim

\* C1 witness: all three collaborators failed and the call returned
C1_Witness ==
    /\ pc = "done"
    /\ HasCall("kb.search.raise")
    /\ HasCall("pubmed.search.raise")
    /\ gemini_e # NoException

\* C2 (as claimed): the returned result always has a non-empty verdict text
C2_ResponseNonEmpty ==
    pc = "done" => result.response # <<>>

\* C3 (as claimed): every invocation issues exactly one generate_content
\* request
C3_ExactlyOneRequest ==
    pc = "done" => Len(CallsOf({"generate_content"})) = 1

\* C3 (amended): an invocation never issues more than one generate_content
\* request; it has issued exactly one when it returns if the Gemini client
\* holds an SDK client, whatever the two searches did, and none if it holds
\* no SDK client.
C3_OneRequestWhenClient ==
    /\ Len(CallsOf({"generate_content"})) <= 1
    /\ pc \in {"curated", "pubmed", "gemini"} => ~HasCall("generate_content")
    /\ pc = "done" =>
         Len(CallsOf({"generate_content"})) = (IF client THEN 1 ELSE 0)

\* C3 witness: both searches failed, the single request was issued and it
\* failed
C3_Witness ==
    /\ pc = "done"
    /\ client
    /\ HasCall("kb.search.raise")
    /\ HasCall("pubmed.search.raise")
    /\ gemini_e \in GenerateErrors
    /\ Len(CallsOf({"generate_content"})) = 1

\* C4: when the reasoning call fails, check_claim does not raise; it returns
\* a result whose response is the error text containing the failure's
\* message and whose claim is the input claim.  A call made with no SDK
\* client and a call whose request failed are both such failures.
C4_ReasoningFailureReported ==
    /\ pc # "raised"
    /\ (pc = "done" /\ ~client) => gemini_e = NoClientError
    /\ (pc = "done" /\ HasCall("models.list")) =>
         /\ gemini_e.type = "RuntimeError"
         /\ Contains(gemini_e.msg, <<" not found or not supported for generate_content. ">>)
    /\ (pc = "done" /\ gemini_e # NoException) =>
         /\ result.claim = claim
         /\ Head(result.response) = "Error calling Gemini: "
         /\ Contains(result.response, gemini_e.msg)
         /\ Len(result.response) = 1 + Len(gemini_e.msg)

\* C4 witness: a model-not-found failure was reported in the response
C4_Witness ==
    /\ pc = "done"
    /\ HasCall("models.list")
    /\ Contains(result.response, <<"Model ", GEMINI_MODEL>>)

\* The place of a call in the fixed order of one invocation
Rank(op) ==
    CASE op = "kb.search" -> 1
      [] op \in {"kb.search.return", "kb.search.raise"} -> 2
      [] op = "pubmed.search" -> 3
      [] op \in {"esearch", "sleep", "efetch"} -> 4
      [] op \in {"pubmed.search.return", "pubmed.search.raise"} -> 5
      [] op = "generate_content" -> 6
      [] OTHER -> 7

\* C5: in every invocation the curated search starts and ends before the
\* PubMed search starts, the PubMed search ends before the reasoning request
\* is issued, each search is started exactly once (the PubMed search also
\* after a curated failure or a curated match), and the upstream calls of
\* the PubMed search lie between its start and its end.
C5_SearchesInOrder ==
    /\ \A i, j \in 1..Len(log) :
         i < j => /\ Rank(log[i].op) <= Rank(log[j].op)
                  /\ Rank(log[i].op) = Rank(log[j].op) => Rank(log[i].op) = 4
    /\ log # <<>> => log[1].op = "kb.search"
    /\ HasCall("pubmed.search") =>
         Len(CallsOf({"kb.search.return", "kb.search.raise"})) = 1
    /\ HasCall("generate_content") =>
         Len(CallsOf({"pubmed.search.return", "pubmed.search.raise"})) = 1
    /\ pc \in {"gemini", "done"} =>
         /\ OpsOf(CallsOf({"kb.search", "pubmed.search"}))
              = <<"kb.search", "pubmed.search">>
         /\ Len(CallsOf({"kb.search.return", "kb.search.raise"})) = 1
         /\ Len(CallsOf({"pubmed.search.return", "pubmed.search.raise"})) = 1
    /\ (pc = "pubmed" /\ ppc # "esearch") => HasCall("pubmed.search")

\* C5 witness: the curated search failed, the PubMed search ran to its fetch
\* and the reasoning request followed
C5_Witness ==
    /\ pc = "done"
    /\ OpsOf(CallsOf({"kb.search.raise", "efetch", "pubmed.search.return",
                      "generate_content"}))
         = <<"kb.search.raise", "efetch", "pubmed.search.return",
             "generate_content">>

\* C6: evidence gathering is total: a failure of the curated search or of
\* the PubMed search does not leave check_claim; the failed source's block is
\* its fixed fallback line, and the step that sets one source's block leaves
\* the other source's block as it was.
C6_EvidenceTotal ==
    /\ [](pc # "raised")
    /\ []((HasCall("kb.search.raise") /\ pc \in {"pubmed", "gemini", "done"})
            => curated_serialized = CuratedFallback)
    /\ []((HasCall("pubmed.search.raise") /\ pc \in {"gemini", "done"})
            => pubmed_serialized = PubmedFallback)
    /\ [][pc = "curated" => pubmed_serialized' = pubmed_serialized]_vars
    /\ [][pc = "pubmed" => curated_serialized' = curated_serialized]_vars

\* C6 witness: the curated search failed and the literature block holds a
\* fetched record all the same
C6_Witness ==
    /\ pc = "done"
    /\ HasCall("kb.search.raise")
    /\ curated_serialized = CuratedFallback
    /\ Contains(pubmed_serialized, <<"--- PubMed Result ", "1", " ---">>)

\* C7 (as claimed): an embedding or vector-store failure of the curated
\* search is not turned into the "no matching health myths" block
C7_KbFailureNotDegraded ==
    (HasCall("kb.search.raise") /\ pc \in {"pubmed", "gemini", "done"})
        => curated_serialized # CuratedFallback

\* C8: PubMedSearcher.search never raises; once an exception has reached its
\* outer handler (from the discovery call, from reading its response, from
\* the fetch call, from reading the fetch response, or from a fetch response
\* without the record list) the search is over and returns the empty list.
C8_SearchDegradesToEmpty ==
    /\ ppc # "raised"
    /\ search_e # NoException => ppc \in {"return", "off"}
    /\ (ppc = "return" /\ search_e # NoException) => results = <<>>
    /\ (ppc = "return" /\ ~HasCall("efetch")) => results = <<>>
    /\ (ppc = "return" /\ search_e = NoException /\ HasCall("efetch"))
         => idx = Len(articles) + 1

\* C8 witness: the fetch response had no record list and the search
\* returned the empty list
C8_Witness ==
    /\ ppc = "return"
    /\ search_e = [type |-> "KeyError", msg |-> <<"'PubmedArticle'">>]
    /\ results = <<>>

\* A record every lookup of the parser succeeds on
WellFormed(a) ==
    /\ a.hasMedlineCitation
    /\ a.hasArticle
    /\ a.hasPMID
    /\ a.Abstract \in {"absent", "list", "str"}
    /\ a.Journal \in {"absent", "mapping"}

\* The identifiers of the well-formed records of a batch, in batch order
RECURSIVE WellFormedPmids(_)
WellFormedPmids(batch) ==
    IF batch = <<>> THEN <<>>
    ELSE (IF WellFormed(Head(batch)) THEN << <<Head(batch).PMID>> >> ELSE <<>>)
         \o WellFormedPmids(Tail(batch))

\* C9: the records of a batch are parsed independently: after any number of
\* records, and when the search returns, the results hold exactly one
\* normalized record per well-formed record seen, in batch order, and none
\* for a malformed one.
C9_RecordsIndependent ==
    /\ ppc = "parse" =>
         [i \in 1..Len(results) |-> results[i].pmid]
            = WellFormedPmids(SubSeq(articles, 1, idx - 1))
    /\ (ppc = "return" /\ search_e = NoException /\ HasCall("efetch")) =>
         /\ [i \in 1..Len(results) |-> results[i].pmid]
               = WellFormedPmids(articles)
         /\ \A i \in 1..Len(results) :
              \E j \in 1..Len(articles) :
                 WellFormed(articles[j]) /\ results[i] = Paper(articles[j])

\* C9 witness: a batch of three whose second record is malformed gave two
\* results
C9_Witness ==
    /\ ppc = "return"
    /\ search_e = NoException
    /\ Len(articles) = 3
    /\ WellFormed(articles[1]) /\ ~WellFormed(articles[2])
    /\ WellFormed(articles[3])
    /\ Len(results) = 2

\* The upstream calls of the current search
UpstreamCalls == CallsOf({"esearch", "sleep", "efetch"})

\* C10: the two-phase protocol: discovery is issued first; with an empty
\* identifier list the search returns empty with no delay and no fetch;
\* otherwise the delay follows discovery, and one fetch, for exactly the
\* discovered identifiers, follows the delay.
C10_TwoPhaseProtocol ==
    /\ \E n \in 0..3 :
         OpsOf(UpstreamCalls) = SubSeq(<<"esearch", "sleep", "efetch">>, 1, n)
    /\ (pc = "pubmed" /\ HasCall("efetch")) =>
         /\ id_list # <<>>
         /\ UpstreamCalls[3].arg = id_list
    /\ (pc = "pubmed" /\ HasCall("sleep")) => id_list # <<>>
    /\ (ppc = "return" /\ search_e = NoException /\ id_list = <<>>) =>
         /\ OpsOf(UpstreamCalls) = <<"esearch">>
         /\ results = <<>>
    /\ (ppc = "parse" \/ (ppc = "return" /\ search_e = NoException
                          /\ id_list # <<>>)) =>
         OpsOf(UpstreamCalls) = <<"esearch", "sleep", "efetch">>

\* C10 witness: two identifiers were discovered and fetched in one call
\* after the delay
C10_Witness ==
    /\ ppc = "return"
    /\ Len(id_list) = 2
    /\ OpsOf(UpstreamCalls) = <<"esearch", "sleep", "efetch">>
    /\ UpstreamCalls[3].arg = id_list

----------------------------------------------------------------------------
(* PubMedSearcher on its own: a caller makes one search after another on   *)
(* the same searcher; the log of upstream calls runs across the searches.  *)

\* searches a caller makes in a row
MaxSearches == 2

Queries == {"hot water malaria", "sugar diabetes"}

InitSearch ==
    /\ client = TRUE
    /\ pc = "pubmed"
    /\ claim = ""
    /\ curated_serialized = <<>>
    /\ pubmed_serialized = <<>>
    /\ user_content = <<>>
    /\ result = NoResult
    /\ escaped = NoException
    /\ gemini_e = NoException
    /\ log = <<>>
    /\ ppc = "off"
    /\ id_list = <<>>
    /\ articles = <<>>
    /\ idx = 0
    /\ results = <<>>
    /\ handles = {}
    /\ search_e = NoException
    /\ collection = <<>>
    /\ kb_op = NoKbOp
    /\ bpc = [p \in Procs |-> NotStarted]
    /\ verdict = NotParsed

\* lines 18-29: search(query, max_results) is called; the previous search,
\* if any, has returned
SearchCall ==
    /\ pc = "pubmed" /\ ppc \in {"off", "return"}
    /\ Len(SelectSeq(log, LAMBDA c : c.op = "pubmed.search")) < MaxSearches
    /\ \E q \in Queries : claim' = q
    /\ EnterSearch
    /\ UNCHANGED << kbVars, verdict, client, pc, curated_serialized, pubmed_serialized,
                    user_content, result, escaped, gemini_e, log >>

NextSearch ==
    \/ SearchCall
    \/ Esearch
    \/ EsearchRaises
    \/ ReadSearch
    \/ ReadSearchRaises
    \/ Sleep
    \/ Efetch
    \/ EfetchRaises
    \/ ReadFetch
    \/ ReadFetchRaises
    \/ ParseRecord
    \/ SearchReturns

SpecSearch == InitSearch /\ [][NextSearch]_vars

\* The upstream requests and delays of all searches so far
UpstreamTrace ==
    SelectSeq(log, LAMBDA c : c.op \in {"esearch", "sleep", "efetch"})

\* C11 (as claimed): a rate-limit delay separates every two consecutive
\* upstream requests, of the same search or of successive searches
C11_DelayBetweenRequests ==
    \A i \in 1..(Len(UpstreamTrace) - 1) :
        ~ /\ UpstreamTrace[i].op \in {"esearch", "efetch"}
          /\ UpstreamTrace[i + 1].op \in {"esearch", "efetch"}

----------------------------------------------------------------------------
(* The record parser on its own: one fetched record, drawn from a wide set *)
(* of shapes, goes through the record loop and the search returns.         *)

\* longest author list of a fetched record
MaxAuthors == 5

AuthorNamePool ==
    <<"Okafor", "Bello", "Musa", "Eze", "Adeyemi", "Ibrahim", "Obi", "Lawal">>

\* An author list whose i-th entry is a named or a collective author
AuthorListOf(kinds) ==
    [i \in 1..Len(kinds) |->
        IF kinds[i] = "named" THEN Author(AuthorNamePool[i], "A")
        ELSE CollectiveAuthor]

AuthorLists ==
    { [has |-> FALSE, list |-> <<>>] }
    \cup { [has |-> TRUE, list |-> AuthorListOf(kinds)] :
             kinds \in SeqsUpTo({"named", "collective"}, MaxAuthors) }

AbstractLengths ==
    {0, 1, AbstractLimit, AbstractLimit + 1, 20 * AbstractLimit}

\* The shapes the parser is tried on: every author list, abstract lengths
\* around the limit, the year missing at each level, title and identifier
\* present or not; and the shapes no lookup chain above covers
RichArticles ==
    { [FullArticle EXCEPT
          !.hasAuthorList = al.has, !.AuthorList = al.list,
          !.abstractLen = n,
          !.Journal = IF d < 0 THEN "absent" ELSE "mapping",
          !.pubDateDepth = IF d < 0 THEN 0 ELSE d,
          !.hasArticleTitle = t,
          !.hasPMID = (p # ""), !.PMID = p] :
        al \in AuthorLists, n \in AbstractLengths, d \in (-1)..3,
        t \in BOOLEAN, p \in {"", "31415926", "27182818"} }
    \cup SampleArticles
    \cup { [FullArticle EXCEPT !.Abstract = "str", !.abstractLen = n] :
             n \in AbstractLengths }
    \cup { [FullArticle EXCEPT !.Journal = "notmapping"],
           [FullArticle EXCEPT !.hasJournalTitle = FALSE] }

InitParse ==
    /\ client = TRUE
    /\ pc = "pubmed"
    /\ claim = "hot water malaria"
    /\ curated_serialized = <<>>
    /\ pubmed_serialized = <<>>
    /\ user_content = <<>>
    /\ result = NoResult
    /\ escaped = NoException
    /\ gemini_e = NoException
    /\ log = <<>>
    /\ ppc = "parse"
    /\ id_list = <<"31415926">>
    /\ \E a \in RichArticles : articles = <<a>>
    /\ idx = 1
    /\ results = <<>>
    /\ handles = {}
    /\ search_e = NoException
    /\ collection = <<>>
    /\ kb_op = NoKbOp
    /\ bpc = [p \in Procs |-> NotStarted]
    /\ verdict = NotParsed

NextParse ==
    \/ ParseRecord
    \/ SearchReturns

SpecParse == InitParse /\ [][NextParse]_vars

\* The parser has gone through the record and the search has returned
Parsed == ppc = "return"

\* The length of the upstream abstract of a record
UpstreamAbstractLen(a) ==
    IF a.Abstract \in {"list", "str"} THEN a.abstractLen ELSE 0

\* The number of characters of the upstream abstract a rendered abstract keeps
KeptChars(abstract) ==
    IF abstract = <<>> THEN 0
    ELSE CHOOSE n \in 0..(20 * AbstractLimit) : abstract[3] = ToString(n)

HasMarker(abstract) ==
    abstract # <<>> /\ abstract[Len(abstract)] = "..."

\* C12: abstract bounding: an upstream abstract longer than 500 characters
\* is returned as its first 500 characters followed by "...", a shorter one
\* unchanged and without the marker; no returned abstract keeps more than
\* 500 characters of the upstream text.
C12_AbstractBounded ==
    (Parsed /\ WellFormed(articles[1])) =>
        LET a   == articles[1]
            len == UpstreamAbstractLen(a)
            abs == results[1].abstract
        IN  /\ Len(results) = 1
            /\ KeptChars(abs) <= AbstractLimit
            /\ len > AbstractLimit =>
                 /\ KeptChars(abs) = AbstractLimit
                 /\ HasMarker(abs)
                 /\ abs = <<a.abstractId, "[:", ToString(AbstractLimit), "]", "...">>
            /\ len <= AbstractLimit =>
                 /\ KeptChars(abs) = len
                 /\ ~HasMarker(abs)
            /\ abs # <<>> => abs[1] = a.abstractId

\* C12 witness: a 10,000-character abstract came back as 500 characters and
\* the marker
C12_Witness ==
    /\ Parsed
    /\ Len(results) = 1
    /\ articles[1].abstractLen = 20 * AbstractLimit
    /\ KeptChars(results[1].abstract) = AbstractLimit
    /\ HasMarker(results[1].abstract)

\* The number of author names an authors string holds
NameCount(authors) ==
    Cardinality({i \in 1..Len(authors) : authors[i] = " "})

HasEtAl(authors) ==
    authors # <<>> /\ authors[Len(authors)] = ", et al."

\* C13 (as claimed): a record with more than 3 author entries renders exactly
\* 3 names and "et al.", a record with 1 to 3 entries renders all of them and
\* no marker, collective authors included
C13_AuthorsRendered ==
    (Parsed /\ Len(results) = 1 /\ articles[1].hasAuthorList) =>
        LET n       == Len(articles[1].AuthorList)
            authors == results[1].authors
        IN  /\ n > AuthorLimit =>
                 NameCount(authors) = AuthorLimit /\ HasEtAl(authors)
            /\ n \in 1..AuthorLimit =>
                 NameCount(authors) = n /\ ~HasEtAl(authors)

\* The year a record carries, if every level down to it is present
HasYear(a) == a.Journal = "mapping" /\ a.pubDateDepth = 3

\* C14: absent optional fields become placeholders and never drop the
\* record: a well-formed record without a year, at whatever level it is
\* missing, is returned with year "N/A", one without a title with title
\* "No title"; a present year or title is returned as it is.
C14_Placeholders ==
    (Parsed /\ WellFormed(articles[1])) =>
        LET a == articles[1]
        IN  /\ Len(results) = 1
            /\ results[1].year = (IF HasYear(a) THEN <<a.Year>> ELSE <<"N/A">>)
            /\ results[1].title = (IF a.hasArticleTitle THEN <<a.ArticleTitle>>
                                   ELSE <<"No title">>)

\* C14 witness: a record with a Journal but no JournalIssue and no title was
\* returned with both placeholders
C14_Witness ==
    /\ Parsed
    /\ articles[1].Journal = "mapping" /\ articles[1].pubDateDepth = 0
    /\ ~articles[1].hasArticleTitle
    /\ Len(results) = 1
    /\ results[1].year = <<"N/A">>
    /\ results[1].title = <<"No title">>

\* C15: every returned record carries the identifier of the fetched record
\* it came from and the url built from that identifier alone; a fetched
\* record without an identifier is not returned.
C15_IdentifierAndUrl ==
    /\ \A i \in 1..Len(results) :
         /\ results[i].pmid # <<>> /\ results[i].pmid # <<"">>
         /\ results[i].url
              = <<"https://pubmed.ncbi.nlm.nih.gov/", results[i].pmid[1], "/">>
    /\ Parsed =>
         /\ ~articles[1].hasPMID => results = <<>>
         /\ Len(results) = 1 => results[1].pmid = <<articles[1].PMID>>

\* C15 witness: a record with an identifier was returned with its url
C15_Witness ==
    /\ Parsed
    /\ Len(results) = 1
    /\ results[1].pmid = <<"27182818">>
    /\ results[1].url = <<"https://pubmed.ncbi.nlm.nih.gov/", "27182818", "/">>

----------------------------------------------------------------------------
(* HealthKnowledgeBase on its own: index_myths, search and get_count on    *)
(* one persistent collection.                                              *)

\* documents the collection may hold
MaxDocs == 3

\* myths one index_myths call is given
MaxMyths == 2

SIMILARITY_THRESHOLD == 75

\* The first entries of CURATED_HEALTH_MYTHS, explanations abridged
SeedRecords ==
    << [claim |-> "Hot water cures malaria", verdict |-> "FALSE",
        confidence |-> 95,
        explanation |-> "Malaria is caused by Plasmodium parasites ...",
        sources |-> <<"WHO Malaria Treatment Guidelines 2023",
                      "Nigerian Federal Ministry of Health - Malaria Treatment Protocol",
                      "Nigeria Centre for Disease Control (NCDC)">>,
        category |-> "malaria", language |-> "en"],
       [claim |-> "Sugar causes diabetes", verdict |-> "PARTIALLY TRUE",
        confidence |-> 70,
        explanation |-> "Eating too much sugar does not directly cause diabetes ...",
        sources |-> <<"WHO - Diabetes Fact Sheet",
                      "American Diabetes Association Guidelines",
                      "Nigerian Endocrine Society">>,
        category |-> "diabetes", language |-> "en"] >>

KeyOrder ==
    <<"claim", "verdict", "confidence", "explanation", "sources", "category",
      "language">>

Reversed(s) == [i \in 1..Len(s) |-> s[Len(s) + 1 - i]]

\* A Python dict: its (key, value) pairs in insertion order
Dict(order, fields) == [i \in 1..Len(order) |-> <<order[i], fields[order[i]]>>]

HasKey(myth, key) == \E i \in 1..Len(myth) : myth[i][1] = key

\* myth[key]
Get(myth, key) == myth[CHOOSE i \in 1..Len(myth) : myth[i][1] = key][2]

\* myth.get(key, default)
GetOr(myth, key, default) ==
    IF HasKey(myth, key) THEN Get(myth, key) ELSE default

\* The myths index_myths is given: the seed records as written, and the
\* first of them with its keys in another order, without language, and in
\* another language
MythInputs ==
    { Dict(KeyOrder, SeedRecords[i]) : i \in 1..Len(SeedRecords) }
    \cup { Dict(Reversed(KeyOrder), SeedRecords[1]),
           Dict(SubSeq(KeyOrder, 1, 6), SeedRecords[1]),
           Dict(KeyOrder, [SeedRecords[1] EXCEPT !.language = "yo"]) }

Whitespace == {"", " ", "\n", "\n            "}

\* str.strip() on a text given as tokens
RECURSIVE Strip(_)
Strip(text) ==
    IF text = <<>> THEN <<>>
    ELSE IF Head(text) \in Whitespace THEN Strip(Tail(text))
    ELSE IF text[Len(text)] \in Whitespace
    THEN Strip(SubSeq(text, 1, Len(text) - 1))
    ELSE text

\* Mutant of RenderContent: the fields are rendered in the dict's insertion
\* order
RenderContentInInsertionOrder(myth) ==
    Strip(<<"\n">>
          \o Join(<<"\n">>,
                  [i \in 1..Len(myth) |->
                      IF myth[i][1] = "sources"
                      THEN Join(<<"\n">>, [j \in 1..Len(myth[i][2]) |->
                                              <<"- ", myth[i][2][j]>>])
                      ELSE IF myth[i][1] = "confidence"
                      THEN <<ToString(myth[i][2]), "%">>
                      ELSE <<myth[i][2]>>])
          \o <<"\n            ">>)

\* The content text of a myth
RenderContent(myth) ==
    Strip(<<"\n", "Health Claim: ", Get(myth, "claim"), "\n",
            "Verdict: ", Get(myth, "verdict"), "\n",
            "Confidence: ", ToString(Get(myth, "confidence")), "%", "\n", "\n",
            "Explanation: ", Get(myth, "explanation"), "\n", "\n",
            "Trusted Sources:", "\n">>
          \o Join(<<"\n">>, [j \in 1..Len(Get(myth, "sources")) |->
                                <<"- ", Get(myth, "sources")[j]>>])
          \o <<"\n", "\n", "Category: ", Get(myth, "category"),
               "\n            ">>)

\* The Document of a myth
DocOf(myth) ==
    [page_content |-> RenderContent(myth),
     metadata |-> [claim |-> Get(myth, "claim"),
                   verdict |-> Get(myth, "verdict"),
                   confidence |-> Get(myth, "confidence"),
                   category |-> Get(myth, "category"),
                   language |-> GetOr(myth, "language", "en")]]

\* Mutant of AddDocuments: a document already stored is not stored again
AddDocumentsDeduplicating(stored, docs) ==
    stored \o SelectSeq(docs, LAMBDA d :
                  \A i \in 1..Len(stored) : stored[i] # d)

\* vector_store.add_documents(docs)
AddDocuments(stored, docs) == stored \o docs

MythBatches == SeqsUpTo(MythInputs, MaxMyths)

\* embedding-provider and vector-store failures of add_documents
IndexErrors ==
    { [type |-> "RuntimeError",
       msg |-> <<"Unexpected embeddings response from Gemini client">>],
      [type |-> "OSError", msg |-> <<"StoreUnavailable">>] }

KbQueries == {"hot water malaria", "sugar diabetes", "moon landing"}

KValues == 1..(TOP_K_RESULTS + 1)

\* The similarity, in percent, the embeddings give a query and a document
Similarity(query, doc) ==
    LET c == doc.metadata.claim
    IN  CASE query = "hot water malaria" /\ c = "Hot water cures malaria" -> 91
          [] query = "hot water malaria" -> 22
          [] query = "sugar diabetes" /\ c = "Sugar causes diabetes" -> 88
          [] query = "sugar diabetes" -> 31
          [] OTHER -> 12

\* GeminiEmbeddings defines embed_documents only; similarity_search embeds
\* the query through embed_query
MissingEmbedQuery ==
    [type |-> "AttributeError",
     msg |-> <<"'GeminiEmbeddings' object has no attribute 'embed_query'">>]

SearchErrors == {MissingEmbedQuery} \cup KbErrors

Min(a, b) == IF a <= b THEN a ELSE b

\* similarity_search(query, k=k) once the query is embedded: the k nearest
\* stored documents, nearest first, ties in any order
NearestDocs(stored, query, k) ==
    LET n == Len(stored)
        m == Min(k, n)
    IN  { [i \in 1..m |-> stored[s[i]]] :
            s \in { t \in [1..m -> 1..n] :
                      /\ \A i, j \in 1..m : i # j => t[i] # t[j]
                      /\ \A i, j \in 1..m : i < j =>
                           Similarity(query, stored[t[i]])
                             >= Similarity(query, stored[t[j]])
                      /\ \A x \in 1..n : (\A i \in 1..m : t[i] # x) =>
                           \A i \in 1..m : Similarity(query, stored[t[i]])
                                             >= Similarity(query, stored[x]) } }

\* The documents index_myths builds of its myths, in their order
DocsOf(myths) == [i \in 1..Len(myths) |-> DocOf(myths[i])]

\* index_myths(myths)
IndexMyths ==
    /\ \E myths \in MythBatches :
         /\ Len(collection) + Len(myths) <= MaxDocs
         /\ collection' = AddDocuments(collection, DocsOf(myths))
         /\ kb_op' = [NoKbOp EXCEPT !.op = "index_myths", !.myths = myths]
    /\ UNCHANGED << bpc, client, pc, agentVars, verdict, log,
                    searchVars >>

\* index_myths(myths) when add_documents raises: nothing is stored
IndexMythsRaises ==
    /\ \E e \in IndexErrors :
         kb_op' = [NoKbOp EXCEPT !.op = "index_myths", !.raised = e]
    /\ UNCHANGED << collection, bpc, client, pc, agentVars, verdict, log,
                    searchVars >>

\* search(query, k) answering
KbSearch ==
    /\ \E query \in KbQueries, k \in KValues :
         \E found \in NearestDocs(collection, query, k) :
             kb_op' = [NoKbOp EXCEPT !.op = "search", !.query = query,
                                     !.k = k, !.found = found]
    /\ UNCHANGED << collection, bpc, client, pc, agentVars, verdict, log,
                    searchVars >>

\* search(query, k) raising
KbSearchRaises ==
    /\ \E query \in KbQueries, k \in KValues, e \in SearchErrors :
         kb_op' = [NoKbOp EXCEPT !.op = "search", !.query = query, !.k = k,
                                 !.raised = e]
    /\ UNCHANGED << collection, bpc, client, pc, agentVars, verdict, log,
                    searchVars >>

\* The keys index_myths reads with myth[key]
RequiredKeys == SubSeq(KeyOrder, 1, 6)

WellFormedMyth(myth) ==
    \A i \in 1..Len(RequiredKeys) : HasKey(myth, RequiredKeys[i])

\* The first required key a myth lacks, in the order the keys are read
MissingKey(myth) ==
    RequiredKeys[CHOOSE i \in 1..Len(RequiredKeys) :
                    /\ ~HasKey(myth, RequiredKeys[i])
                    /\ \A j \in 1..(i - 1) : HasKey(myth, RequiredKeys[j])]

\* The position of the first myth of a batch that lacks a required key
FirstMalformed(myths) ==
    CHOOSE i \in 1..Len(myths) :
        /\ ~WellFormedMyth(myths[i])
        /\ \A j \in 1..(i - 1) : WellFormedMyth(myths[j])

\* The second seed record without its claim, its sources or its category
MalformedMyths ==
    { Dict(SelectSeq(KeyOrder, LAMBDA k : k # missing), SeedRecords[2]) :
        missing \in {"claim", "sources", "category"} }

\* Batches with at least one malformed myth
MalformedBatches ==
    { myths \in SeqsUpTo({Dict(KeyOrder, SeedRecords[1])} \cup MalformedMyths,
                         MaxMyths) :
        \E i \in 1..Len(myths) : ~WellFormedMyth(myths[i]) }

\* Mutant of StoredAfterKeyError: every document is added as soon as it is
\* rendered
StoredAfterKeyErrorAddingEach(stored, myths) ==
    AddDocuments(stored, DocsOf(SubSeq(myths, 1, FirstMalformed(myths) - 1)))

\* lines 82-108: the loop raises KeyError at the first malformed myth; the
\* documents rendered so far are in the local list docs, add_documents
\* (110) has not been reached
StoredAfterKeyError(stored, myths) == stored

\* index_myths(myths) on a batch with a malformed myth
IndexMythsKeyError ==
    /\ \E myths \in MalformedBatches :
         /\ Len(collection) + Len(myths) <= MaxDocs
         /\ collection' = StoredAfterKeyError(collection, myths)
         /\ kb_op' = [NoKbOp EXCEPT
                        !.op = "index_myths", !.myths = myths,
                        !.raised = [type |-> "KeyError",
                                    msg |-> <<"'", MissingKey(myths[FirstMalformed(myths)]), "'">>]]
    /\ UNCHANGED << bpc, client, pc, agentVars, verdict, log, searchVars >>

\* get_count()
GetCount ==
    /\ kb_op' = [NoKbOp EXCEPT !.op = "get_count", !.count = Len(collection)]
    /\ UNCHANGED << collection, bpc, client, pc, agentVars, verdict, log,
                    searchVars >>

NextKb ==
    \/ IndexMyths
    \/ IndexMythsRaises
    \/ IndexMythsKeyError
    \/ KbSearch
    \/ KbSearchRaises
    \/ GetCount

SpecKb == Init /\ [][NextKb]_vars

\* The last call was op and it returned
Returned(op) == kb_op.op = op /\ kb_op.raised = NoException

\* C16 (as claimed): search(q, k) on a store of n documents returns exactly
\* min(k, n) documents, nearest first, and the empty sequence, not an
\* error, when the store is empty
C16_SearchReturnsMinKN ==
    kb_op.op = "search" =>
        /\ kb_op.raised = NoException
        /\ Len(kb_op.found) = Min(kb_op.k, Len(collection))
        /\ \A i, j \in 1..Len(kb_op.found) : i < j =>
             Similarity(kb_op.query, kb_op.found[i])
               >= Similarity(kb_op.query, kb_op.found[j])

\* C17 (as claimed): a document below SIMILARITY_THRESHOLD is never
\* returned by search, even when fewer than k documents clear it
C17_ThresholdRespected ==
    Returned("search") =>
        \A i \in 1..Len(kb_op.found) :
            Similarity(kb_op.query, kb_op.found[i]) >= SIMILARITY_THRESHOLD

\* C18: no deduplication: a successful index_myths(myths) appends one
\* document per myth, so the count grows by exactly len(myths); no call
\* of index_myths, search or get_count makes the count smaller, and
\* get_count reports the number of stored documents.
C18_NoDeduplication ==
    [][ /\ Len(collection') >= Len(collection)
        /\ (kb_op'.op = "index_myths" /\ kb_op'.raised = NoException) =>
             /\ Len(collection') = Len(collection) + Len(kb_op'.myths)
             /\ collection' = collection \o DocsOf(kb_op'.myths)
        /\ kb_op'.op \in {"search", "get_count"} => collection' = collection
        /\ kb_op'.op = "get_count" => kb_op'.count = Len(collection') ]_vars

\* C18 witness: the same myths were indexed twice and every one of them is
\* stored twice
C18_Witness ==
    /\ Returned("index_myths")
    /\ Len(kb_op.myths) >= 1
    /\ collection = DocsOf(kb_op.myths) \o DocsOf(kb_op.myths)

\* Two dicts with the same keys and values, in whatever order
SameMyth(a, b) ==
    \A i \in 1..Len(KeyOrder) :
        /\ HasKey(a, KeyOrder[i]) = HasKey(b, KeyOrder[i])
        /\ HasKey(a, KeyOrder[i]) => Get(a, KeyOrder[i]) = Get(b, KeyOrder[i])

\* Two dicts with the same claim, verdict, confidence, explanation, sources
\* and category
SameContentFields(a, b) ==
    \A i \in 1..6 : Get(a, KeyOrder[i]) = Get(b, KeyOrder[i])

\* The bullets of a content text, in their order
BulletsOf(content) ==
    LET at == {i \in 1..Len(content) : content[i] = "- "}
    IN  [j \in 1..Cardinality(at) |->
            content[(CHOOSE i \in at :
                        Cardinality({x \in at : x < i}) = j - 1) + 1]]

\* The documents the last index_myths call stored
NewDocs ==
    SubSeq(collection, Len(collection) - Len(kb_op.myths) + 1, Len(collection))

\* C20: rendering is deterministic: the same myth, also with its keys in
\* another insertion order, gives the same content and metadata, within one
\* call and across calls; myths that agree on claim, verdict, confidence,
\* explanation, sources and category give the same content; the bullets of
\* the content are the myth's sources in their order.
C20_RenderingDeterministic ==
    /\ Returned("index_myths") =>
         /\ Len(NewDocs) = Len(kb_op.myths)
         /\ \A i, j \in 1..Len(kb_op.myths) :
              /\ SameMyth(kb_op.myths[i], kb_op.myths[j]) =>
                   NewDocs[i] = NewDocs[j]
              /\ SameContentFields(kb_op.myths[i], kb_op.myths[j]) =>
                   NewDocs[i].page_content = NewDocs[j].page_content
         /\ \A i \in 1..Len(kb_op.myths) :
              BulletsOf(NewDocs[i].page_content) = Get(kb_op.myths[i], "sources")
    /\ \A m, n \in 1..Len(collection) :
         collection[m].metadata.claim = collection[n].metadata.claim =>
             collection[m].page_content = collection[n].page_content

\* C20 witness: one call indexed a myth and the same myth with its keys in
\* another order, and stored the same document twice
C20_Witness ==
    /\ Returned("index_myths")
    /\ Len(kb_op.myths) = 2
    /\ kb_op.myths[1] # kb_op.myths[2]
    /\ kb_op.myths[1][1][1] # kb_op.myths[2][1][1]
    /\ SameMyth(kb_op.myths[1], kb_op.myths[2])
    /\ NewDocs[1] = NewDocs[2]

----------------------------------------------------------------------------
(* Process starts, one after the other, on one persistent collection: the  *)
(* initialization of main.py (a CLI run) and of app.py (a UI session).     *)

EntryPoints == {"cli", "ui"}

\* get_all_myths()
SeedMyths == [i \in 1..Len(SeedRecords) |-> Dict(KeyOrder, SeedRecords[i])]

\* Config.validate, GeminiEmbeddings and Chroma failures of the construction
InitErrors ==
    { [type |-> "ValueError",
       msg |-> <<"GEMINI_API_KEY is required. Set it in .env file.">>],
      [type |-> "RuntimeError", msg |-> <<"Embedding initialization failed: ">>] }

\* The failures of HealthCheckAgent.__init__
AgentErrors ==
    { [type |-> "RuntimeError", msg |-> <<"Gemini client not available.">>],
      [type |-> "ValueError",
       msg |-> <<"GEMINI_API_KEY must be set in environment to use Gemini provider.">>] }

\* Mutant of NeedsIndexing: the seed set is indexed at every start
NeedsIndexingAlways(count) == TRUE

\* if kb.get_count() == 0
NeedsIndexing(count) == count = 0

\* No other process is inside its initialization
NoneStarting(p) ==
    \A q \in Procs \ {p} : bpc[q].at \in {"off", "ready", "exit", "failed"}

\* A process starts: python main.py <claim>, or a new UI session
BootStart(p) ==
    /\ bpc[p].at \in {"off", "exit", "failed"}
    /\ NoneStarting(p)
    /\ \E kind \in EntryPoints :
         bpc' = [bpc EXCEPT ![p] = [kind |-> kind, at |-> "init",
                                    indexed |-> FALSE]]
    /\ UNCHANGED << collection, kb_op, client, pc, agentVars, verdict, log,
                    searchVars >>

\* Config(), config.validate(), PubMedSearcher and HealthKnowledgeBase are
\* constructed; the store is opened, nothing is added
BootConstruct(p) ==
    /\ bpc[p].at = "init"
    /\ bpc' = [bpc EXCEPT ![p].at = "constructed"]
    /\ kb_op' = NoKbOp
    /\ UNCHANGED << collection, client, pc, agentVars, verdict, log,
                    searchVars >>

\* The construction raises; the handler reports and the start ends
BootConstructRaises(p) ==
    /\ bpc[p].at = "init"
    /\ \E e \in InitErrors :
         kb_op' = [NoKbOp EXCEPT !.op = "init", !.raised = e]
    /\ bpc' = [bpc EXCEPT ![p].at = "failed"]
    /\ UNCHANGED << collection, client, pc, agentVars, verdict, log,
                    searchVars >>

\* app.py: VoiceHandler(config.OPENAI_API_KEY); Config has no such attribute
BootVoiceRaises(p) ==
    /\ bpc[p].at = "constructed"
    /\ bpc[p].kind = "ui"
    /\ kb_op' = [NoKbOp EXCEPT !.op = "voice",
                   !.raised = [type |-> "AttributeError",
                               msg |-> <<"'Config' object has no attribute 'OPENAI_API_KEY'">>]]
    /\ bpc' = [bpc EXCEPT ![p].at = "failed"]
    /\ UNCHANGED << collection, client, pc, agentVars, verdict, log,
                    searchVars >>

\* if kb.get_count() == 0
BootGetCount(p) ==
    /\ bpc[p].at = "constructed"
    /\ bpc[p].kind = "cli"
    /\ kb_op' = [NoKbOp EXCEPT !.op = "get_count", !.count = Len(collection)]
    /\ bpc' = [bpc EXCEPT ![p].at = IF NeedsIndexing(Len(collection))
                                    THEN "index" ELSE "agent"]
    /\ UNCHANGED << collection, client, pc, agentVars, verdict, log,
                    searchVars >>

\* kb.index_myths(get_all_myths())
BootIndexMyths(p) ==
    /\ bpc[p].at = "index"
    /\ collection' = AddDocuments(collection, DocsOf(SeedMyths))
    /\ kb_op' = [NoKbOp EXCEPT !.op = "index_myths", !.myths = SeedMyths]
    /\ bpc' = [bpc EXCEPT ![p].at = "agent", ![p].indexed = TRUE]
    /\ UNCHANGED << client, pc, agentVars, verdict, log,
                    searchVars >>

\* kb.get_count() raises: the start ends
BootGetCountRaises(p) ==
    /\ bpc[p].at = "constructed"
    /\ bpc[p].kind = "cli"
    /\ kb_op' = [NoKbOp EXCEPT !.op = "get_count",
                   !.raised = [type |-> "OSError", msg |-> <<"StoreUnavailable">>]]
    /\ bpc' = [bpc EXCEPT ![p].at = "failed"]
    /\ UNCHANGED << collection, client, pc, agentVars, verdict, log,
                    searchVars >>

\* Mutant of BootIndexMythsRaises: the failure is swallowed and the start
\* goes on to build the agent
BootIndexMythsRaisesSwallowed(p) ==
    /\ bpc[p].at = "index"
    /\ \E e \in IndexErrors :
         kb_op' = [NoKbOp EXCEPT !.op = "index_myths", !.raised = e]
    /\ bpc' = [bpc EXCEPT ![p].at = "agent"]
    /\ UNCHANGED << collection, client, pc, agentVars, verdict, log,
                    searchVars >>

\* kb.index_myths raises: nothing is stored, the start ends
BootIndexMythsRaises(p) ==
    /\ bpc[p].at = "index"
    /\ \E e \in IndexErrors :
         kb_op' = [NoKbOp EXCEPT !.op = "index_myths", !.raised = e]
    /\ bpc' = [bpc EXCEPT ![p].at = "failed"]
    /\ UNCHANGED << collection, client, pc, agentVars, verdict, log,
                    searchVars >>

\* HealthCheckAgent(config, kb, pubmed)
BootAgent(p) ==
    /\ bpc[p].at = "agent"
    /\ bpc' = [bpc EXCEPT ![p].at = "ready"]
    /\ UNCHANGED << collection, kb_op, client, pc, agentVars, verdict, log,
                    searchVars >>

\* HealthCheckAgent.__init__ raises (lines 36-43): the start ends
BootAgentRaises(p) ==
    /\ bpc[p].at = "agent"
    /\ \E e \in AgentErrors :
         kb_op' = [NoKbOp EXCEPT !.op = "agent", !.raised = e]
    /\ bpc' = [bpc EXCEPT ![p].at = "failed"]
    /\ UNCHANGED << collection, client, pc, agentVars, verdict, log,
                    searchVars >>

\* A ready process checks a claim: its curated tool searches the store
BootSearch(p) ==
    /\ bpc[p].at = "ready"
    /\ \E k \in {TOP_K_RESULTS}, query \in KbQueries :
         \/ \E found \in NearestDocs(collection, query, k) :
                kb_op' = [NoKbOp EXCEPT !.op = "search", !.query = query,
                                        !.k = k, !.found = found]
         \/ \E e \in SearchErrors :
                kb_op' = [NoKbOp EXCEPT !.op = "search", !.query = query,
                                        !.k = k, !.raised = e]
    /\ UNCHANGED << collection, bpc, client, pc, agentVars, verdict, log,
                    searchVars >>

\* The process ends
BootExit(p) ==
    /\ bpc[p].at = "ready"
    /\ bpc' = [bpc EXCEPT ![p].at = "exit"]
    /\ UNCHANGED << collection, kb_op, client, pc, agentVars, verdict, log,
                    searchVars >>

NextBoot ==
    \E p \in Procs :
        \/ BootStart(p)
        \/ BootConstruct(p)
        \/ BootConstructRaises(p)
        \/ BootVoiceRaises(p)
        \/ BootGetCount(p)
        \/ BootGetCountRaises(p)
        \/ BootIndexMyths(p)
        \/ BootIndexMythsRaises(p)
        \/ BootAgent(p)
        \/ BootAgentRaises(p)
        \/ BootSearch(p)
        \/ BootExit(p)

SpecBoot == Init /\ [][NextBoot]_vars

\* C19: the bootstrap is idempotent over sequential process starts: the
\* collection changes only when a start that found it empty indexes the
\* seed set; once the seed set is stored every later step leaves the
\* collection as it is, so the count is 0 or the size of the seed set;
\* construction, search and get_count add nothing.
C19_BootstrapIdempotent ==
    [][ /\ collection # <<>> => collection' = collection
        /\ collection' # collection =>
             /\ collection = <<>>
             /\ collection' = DocsOf(SeedMyths)
             /\ kb_op'.op = "index_myths"
             /\ \E p \in Procs : bpc[p].at = "index" /\ bpc'[p].indexed
        /\ Len(collection') \in {0, Len(SeedMyths)}
        /\ kb_op'.op \in {"none", "init", "voice", "search", "get_count"} =>
             collection' = collection ]_vars

\* C19 witness: one start indexed the seed set, a later start found the
\* count non-zero, indexed nothing and is ready; the count is the size of
\* the seed set
C19_Witness ==
    \E p, q \in Procs :
        /\ p # q
        /\ bpc[p].indexed /\ bpc[p].at = "exit"
        /\ bpc[q].kind = "cli" /\ bpc[q].at = "ready" /\ ~bpc[q].indexed
        /\ Len(collection) = Len(SeedMyths)
        /\ Len(SeedMyths) > 0

----------------------------------------------------------------------------
(* check_claim: what is returned and what the reasoning model is given *)

\* C21 (as claimed): the result of check_claim hands the evidence that was
\* retrieved and placed in the prompt back to the caller, next to the
\* verdict text
C21_EvidenceReturned ==
    (pc = "done" /\ (curated_serialized # CuratedFallback
                     \/ pubmed_serialized # PubmedFallback)) =>
        \E key \in DOMAIN result \ {"claim", "response"} : result[key] # <<>>

\* The positions of a label in a text
LabelsAt(text, label) == {i \in 1..Len(text) : text[i] = label}

\* C22: the user message starts with the literal claim and holds, each
\* exactly once and in this order, the label CURATED_KNOWLEDGE: followed by
\* the curated block (the curated fallback line when the curated search
\* failed) and the label PUBMED_RESULTS: followed by the literature block
\* (its fallback line when that search failed); every request to the
\* reasoning model ends with this message.
C22_UserMessageLayout ==
    /\ pc \in {"gemini", "done"} =>
         LET u  == user_content
             cs == LabelsAt(u, "\nCURATED_KNOWLEDGE:\n")
             ps == LabelsAt(u, "\n\nPUBMED_RESULTS:\n")
         IN  /\ u # <<>> /\ u[1] = claim
             /\ Cardinality(cs) = 1 /\ Cardinality(ps) = 1
             /\ LET i == CHOOSE x \in cs : TRUE
                    j == CHOOSE x \in ps : TRUE
                IN  /\ i < j
                    /\ SubSeq(u, i + 1, j - 1) = curated_serialized
                    /\ SubSeq(u, j + 1, Len(u) - 1) = pubmed_serialized
             /\ curated_serialized # <<>> /\ pubmed_serialized # <<>>
             /\ HasCall("kb.search.raise") => curated_serialized = CuratedFallback
             /\ HasCall("pubmed.search.raise") => pubmed_serialized = PubmedFallback
    /\ \A n \in 1..Len(log) :
         log[n].op = "generate_content" =>
             /\ Len(log[n].arg) > Len(user_content)
             /\ SubSeq(log[n].arg, Len(log[n].arg) - Len(user_content) + 1,
                       Len(log[n].arg)) = user_content

\* C22 witness: the curated search answered with documents, the literature
\* search failed, and the request was issued with both sections
C22_Witness ==
    /\ pc = "done"
    /\ HasCall("generate_content")
    /\ claim # ""
    /\ curated_serialized # CuratedFallback
    /\ pubmed_serialized = PubmedFallback
    /\ Contains(user_content, <<"\nCURATED_KNOWLEDGE:\n">> \o curated_serialized)

\* C23: check_claim is stateless: no step of an invocation changes the
\* agent's Gemini client or the knowledge-base collection; an invocation
\* starts from empty locals and an empty call record whatever the earlier
\* invocations did; the request holds the current claim's message only; the
\* returned result holds the current claim and an empty messages list.
C23_Stateless ==
    [][ /\ client' = client
        /\ collection' = collection
        /\ (pc \in {"idle", "done"} /\ pc' = "curated") =>
             /\ curated_serialized' = <<>> /\ pubmed_serialized' = <<>>
             /\ user_content' = <<>> /\ log' = <<>>
             /\ result' = NoResult /\ gemini_e' = NoException
        /\ \A n \in 1..Len(log') :
             log'[n].op = "generate_content" =>
                 log'[n].arg = SystemPrompt \o <<"\n\n">>
                                 \o UserContent(claim', curated_serialized',
                                                pubmed_serialized')
        /\ pc' = "done" =>
             /\ result'.messages = <<>>
             /\ result'.claim = claim' ]_vars

\* C23 witness: an invocation returned after its request, with an empty
\* messages list
C23_Witness ==
    /\ pc = "done"
    /\ HasCall("generate_content")
    /\ result.messages = <<>>
    /\ result.response # <<>>

----------------------------------------------------------------------------
(* The two retrieval tools on their own: what a search returned is         *)
(* rendered into the text block of the prompt.                             *)

\* Records the literature search may have returned
SamplePapers ==
    { Paper(FullArticle),
      Paper(SparseArticle),
      Paper([FullArticle EXCEPT !.PMID = "16180339",
                                !.abstractLen = AbstractLimit + 1,
                                !.AuthorList = << Author("Okafor", "C"),
                                                  Author("Bello", "AM"),
                                                  Author("Musa", "T"),
                                                  Author("Eze", "N") >>]) }

InitRender ==
    /\ client = TRUE
    /\ pc = "curated"
    /\ claim = "hot water cures malaria"
    /\ curated_serialized = <<>>
    /\ pubmed_serialized = <<>>
    /\ user_content = <<>>
    /\ result = NoResult
    /\ escaped = NoException
    /\ gemini_e = NoException
    /\ log = <<>>
    /\ ppc = "return"
    /\ id_list = <<>>
    /\ articles = <<>>
    /\ idx = 0
    /\ results \in SeqsUpTo(SamplePapers, PUBMED_MAX_RESULTS)
    /\ handles = {}
    /\ search_e = NoException
    /\ collection = <<>>
    /\ \E docs \in KbResults(TOP_K_RESULTS) :
         kb_op = [NoKbOp EXCEPT !.op = "search", !.found = docs]
    /\ bpc = [p \in Procs |-> NotStarted]
    /\ verdict = NotParsed

\* search_curated_health_myths renders what knowledge_base.search returned
RenderCurated ==
    /\ pc = "curated"
    /\ curated_serialized' = FormatCurated(kb_op.found).serialized
    /\ pc' = "pubmed"
    /\ UNCHANGED << kbVars, verdict, client, claim, pubmed_serialized, user_content,
                    result, escaped, gemini_e, log, searchVars >>

\* search_pubmed_research renders what pubmed_searcher.search returned
RenderPubmed ==
    /\ pc = "pubmed"
    /\ pubmed_serialized' = FormatPubmed(results).serialized
    /\ pc' = "gemini"
    /\ UNCHANGED << kbVars, verdict, client, claim, curated_serialized, user_content,
                    result, escaped, gemini_e, log, searchVars >>

NextRender ==
    \/ RenderCurated
    \/ RenderPubmed

SpecRender == InitRender /\ [][NextRender]_vars

\* The j-th smallest member of a set of positions
NthOf(positions, j) ==
    CHOOSE i \in positions : Cardinality({x \in positions : x < i}) = j - 1

\* The j-th section of a block whose sections start with the token header
SectionOf(text, header, j) ==
    LET starts == LabelsAt(text, header)
        from   == NthOf(starts, j)
        to     == IF j < Cardinality(starts) THEN NthOf(starts, j + 1) - 1
                  ELSE Len(text)
    IN  SubSeq(text, from, to)

\* C24: the evidence blocks are rendered without loss of citation: the
\* curated block has one section per returned document, numbered 1..n in
\* rank order, holding the document's content and metadata; the literature
\* block has one section per record, numbered 1..m in result order, holding
\* title, authors, journal, year, identifier, url and abstract; a search
\* that returned nothing renders as the fallback line.
C24_BlocksKeepCitations ==
    /\ pc \in {"pubmed", "gemini"} =>
         LET docs  == kb_op.found
             block == curated_serialized
             head  == "--- Curated Knowledge Result "
         IN  /\ docs = <<>> => block = CuratedFallback
             /\ docs # <<>> =>
                  /\ Cardinality(LabelsAt(block, head)) = Len(docs)
                  /\ \A j \in 1..Len(docs) :
                       LET section == SectionOf(block, head, j)
                       IN  /\ SubSeq(section, 1, 3) = <<head, ToString(j), " ---">>
                           /\ Contains(section, docs[j].page_content)
                           /\ Contains(section, <<"Metadata: ">> \o docs[j].metadata)
    /\ pc = "gemini" =>
         LET block == pubmed_serialized
             head  == "--- PubMed Result "
         IN  /\ results = <<>> => block = PubmedFallback
             /\ results # <<>> =>
                  /\ Cardinality(LabelsAt(block, head)) = Len(results)
                  /\ \A j \in 1..Len(results) :
                       LET section == SectionOf(block, head, j)
                           paper   == results[j]
                       IN  /\ SubSeq(section, 1, 3) = <<head, ToString(j), " ---">>
                           /\ Contains(section, <<"Title: ">> \o paper.title)
                           /\ Contains(section, <<"Authors: ">> \o paper.authors)
                           /\ Contains(section, <<"Journal: ">> \o paper.journal
                                                 \o <<" (">> \o paper.year \o <<")">>)
                           /\ Contains(section, <<"PMID: ">> \o paper.pmid)
                           /\ Contains(section, <<"URL: ">> \o paper.url)
                           /\ Contains(section, <<"Abstract: ">> \o paper.abstract)

\* C24 witness: two documents and three records were rendered, each block
\* with its last section numbered by the count
C24_Witness ==
    /\ pc = "gemini"
    /\ Len(kb_op.found) = TOP_K_RESULTS
    /\ Len(results) = PUBMED_MAX_RESULTS
    /\ results[1] # results[2]
    /\ Contains(curated_serialized,
                <<"--- Curated Knowledge Result ", ToString(TOP_K_RESULTS), " ---">>)
    /\ Contains(pubmed_serialized,
                <<"--- PubMed Result ", ToString(PUBMED_MAX_RESULTS), " ---">>)

----------------------------------------------------------------------------
(* Setup failures and concurrent starts *)

SetupOps == {"init", "voice", "get_count", "index_myths", "agent"}

\* C25: setup failures are fatal and visible: a step on which
\* configuration validation, the construction of the store, get_count, the
\* bootstrap index_myths or the construction of the agent raises ends the
\* start (CLI: exit status 1); a start that has ended this way evaluates
\* nothing and can only be started again; a start becomes ready only from
\* a constructed agent, the agent is constructed only on a store that was
\* found non-empty or was indexed successfully, and a claim is evaluated
\* only by a ready start.
C25_SetupFailuresFatal ==
    [][ /\ (kb_op' # kb_op /\ kb_op'.op \in SetupOps
              /\ kb_op'.raised # NoException) =>
             \E p \in Procs :
                 /\ bpc[p].at \in {"init", "constructed", "index", "agent"}
                 /\ bpc'[p].at = "failed"
        /\ \A p \in Procs :
             /\ bpc[p].at = "failed" => bpc'[p].at \in {"failed", "init"}
             /\ (bpc'[p].at = "ready" /\ bpc[p].at # "ready") =>
                  bpc[p].at = "agent"
             /\ (bpc'[p].at = "agent" /\ bpc[p].at # "agent") =>
                  \/ bpc[p].at = "constructed" /\ collection # <<>>
                                               /\ collection' = collection
                  \/ /\ bpc[p].at = "index"
                     /\ kb_op'.op = "index_myths" /\ kb_op'.raised = NoException
                     /\ collection' # <<>>
        /\ (kb_op' # kb_op /\ kb_op'.op = "search") =>
             \E p \in Procs : bpc[p].at = "ready" /\ collection # <<>> ]_vars

\* C25 witness: the bootstrap index_myths of a CLI start raised and the
\* start ended, with nothing stored
C25_Witness ==
    \E p \in Procs :
        /\ bpc[p].kind = "cli" /\ bpc[p].at = "failed"
        /\ kb_op.op = "index_myths" /\ kb_op.raised \in IndexErrors
        /\ collection = <<>>

----------------------------------------------------------------------------
(* The UI reads the verdict label off the response text (app.py 358-375). *)

\* pieces a response text is made of
MaxWords == 4

\* Pieces of a response: the bold verdict marker, label words in both
\* spellings, and other text
Words ==
    {"Verdict:** ", "FALSE", "False", "TRUE", "True", "PARTIALLY ", "UNCLEAR",
     "\n"}

ResponseTexts == SeqsUpTo(Words, MaxWords)

\* Mutant of ParseVerdict: the TRUE test comes first
ParseVerdictTrueFirst(response_text) ==
    IF \/ Contains(response_text, <<"Verdict:** ", "TRUE">>)
       \/ Contains(response_text, <<"Verdict:** ", "True">>)
    THEN "TRUE"
    ELSE IF \/ Contains(response_text, <<"Verdict:** ", "FALSE">>)
            \/ Contains(response_text, <<"Verdict:** ", "False">>)
    THEN "FALSE"
    ELSE IF Contains(response_text, <<"Verdict:** ", "PARTIALLY ", "TRUE">>)
    THEN "PARTIALLY TRUE"
    ELSE "UNCLEAR"

\* lines 358-375
ParseVerdict(response_text) ==
    IF \/ Contains(response_text, <<"Verdict:** ", "FALSE">>)
       \/ Contains(response_text, <<"Verdict:** ", "False">>)
    THEN "FALSE"
    ELSE IF \/ Contains(response_text, <<"Verdict:** ", "TRUE">>)
            \/ Contains(response_text, <<"Verdict:** ", "True">>)
    THEN "TRUE"
    ELSE IF Contains(response_text, <<"Verdict:** ", "PARTIALLY ", "TRUE">>)
    THEN "PARTIALLY TRUE"
    ELSE "UNCLEAR"

\* check_claim has returned a result with some response text
InitVerdict ==
    /\ client = TRUE
    /\ pc = "done"
    /\ claim = "hot water cures malaria"
    /\ curated_serialized = CuratedFallback
    /\ pubmed_serialized = PubmedFallback
    /\ user_content = UserContent(claim, CuratedFallback, PubmedFallback)
    /\ \E text \in ResponseTexts : result = ResultDict(claim, text)
    /\ escaped = NoException
    /\ gemini_e = NoException
    /\ log = <<>>
    /\ ppc = "off"
    /\ id_list = <<>>
    /\ articles = <<>>
    /\ idx = 0
    /\ results = <<>>
    /\ handles = {}
    /\ search_e = NoException
    /\ collection = <<>>
    /\ kb_op = NoKbOp
    /\ bpc = [p \in Procs |-> NotStarted]
    /\ verdict = NotParsed

\* The UI parses the verdict of the returned response
ShowResult ==
    /\ pc = "done"
    /\ verdict = NotParsed
    /\ verdict' = ParseVerdict(result.response)
    /\ UNCHANGED << kbVars, client, pc, agentVars, log, searchVars >>

NextVerdict == ShowResult

SpecVerdict == InitVerdict /\ [][NextVerdict]_vars

VerdictLabels == {"FALSE", "TRUE", "PARTIALLY TRUE", "UNCLEAR"}

\* The literal fragment of a label occurs in a text
HasFragment(text, label) ==
    CASE label = "FALSE" -> Contains(text, <<"Verdict:** ", "FALSE">>)
      [] label = "TRUE" -> Contains(text, <<"Verdict:** ", "TRUE">>)
      [] label = "PARTIALLY TRUE" ->
             Contains(text, <<"Verdict:** ", "PARTIALLY ", "TRUE">>)
      [] OTHER -> FALSE

\* A fragment the extraction recognises for a label occurs in a text: the
\* literal one, or for FALSE and TRUE the one spelled False or True
HasRecognisedFragment(text, label) ==
    \/ HasFragment(text, label)
    \/ label = "FALSE" /\ Contains(text, <<"Verdict:** ", "False">>)
    \/ label = "TRUE" /\ Contains(text, <<"Verdict:** ", "True">>)

----------------------------------------------------------------------------
(* Process starts that overlap: nothing in main.py or app.py orders two    *)
(* starts on the same collection.                                          *)

\* A process starts whatever the other processes are doing
BootStartConcurrently(p) ==
    /\ bpc[p].at \in {"off", "exit", "failed"}
    /\ \E kind \in EntryPoints :
         bpc' = [bpc EXCEPT ![p] = [kind |-> kind, at |-> "init",
                                    indexed |-> FALSE]]
    /\ UNCHANGED << collection, kb_op, client, pc, agentVars, verdict, log,
                    searchVars >>

NextBootConcurrent ==
    \E p \in Procs :
        \/ BootStartConcurrently(p)
        \/ BootConstruct(p)
        \/ BootConstructRaises(p)
        \/ BootVoiceRaises(p)
        \/ BootGetCount(p)
        \/ BootGetCountRaises(p)
        \/ BootIndexMyths(p)
        \/ BootIndexMythsRaises(p)
        \/ BootAgent(p)
        \/ BootAgentRaises(p)
        \/ BootSearch(p)
        \/ BootExit(p)

SpecBootConcurrent == Init /\ [][NextBootConcurrent]_vars

\* C27 (as claimed): when two initializations run concurrently on the same
\* empty collection the seed set is indexed once: the two never both index
\* and the count never exceeds the size of the seed set
C27_IndexedOnce ==
    /\ Len(collection) <= Len(SeedMyths)
    /\ \A p, q \in Procs : (bpc[p].indexed /\ bpc[q].indexed
                            /\ bpc[p].at # "off" /\ bpc[q].at # "off") => p = q

----------------------------------------------------------------------------
(* index_myths on malformed input *)

\* C28: index_myths is all-or-nothing on malformed input: a call whose
\* batch has a myth without claim, verdict, confidence, explanation,
\* sources or category raises KeyError and leaves the collection as it
\* was; a call that returns was given well-formed myths only and added
\* the documents of all of them at once.
C28_AllOrNothing ==
    [][ /\ (kb_op'.op = "index_myths"
              /\ \E i \in 1..Len(kb_op'.myths) :
                     ~WellFormedMyth(kb_op'.myths[i])) =>
             /\ kb_op'.raised.type = "KeyError"
             /\ collection' = collection
        /\ (kb_op'.op = "index_myths" /\ kb_op'.raised = NoException) =>
             /\ \A i \in 1..Len(kb_op'.myths) : WellFormedMyth(kb_op'.myths[i])
             /\ collection' = collection \o DocsOf(kb_op'.myths) ]_vars

\* C28 witness: a batch of a well-formed myth followed by one without its
\* sources was refused with the store holding what it held before
C28_Witness ==
    /\ kb_op.op = "index_myths"
    /\ kb_op.raised = [type |-> "KeyError", msg |-> <<"'", "sources", "'">>]
    /\ Len(kb_op.myths) = 2
    /\ WellFormedMyth(kb_op.myths[1])
    /\ Len(collection) = 1

----------------------------------------------------------------------------
(* Upstream handles of PubMedSearcher.search; the UI initialization *)

\* C29 (as claimed): every upstream handle search opened has been closed by
\* the time search returns, on every path
C29_HandlesClosed ==
    ppc = "return" => handles = {}

\* C30 (as claimed): with a valid configuration and all collaborators
\* available the UI initialization completes: once the searcher and the
\* knowledge base are constructed it constructs the voice handler and goes
\* on to the bootstrap check, and it ends only because a collaborator failed
C30_UiInitCompletes ==
    [][ \A p \in Procs :
          (bpc[p].kind = "ui" /\ bpc[p].at = "constructed"
             /\ bpc'[p].at # "constructed") =>
              \/ bpc'[p].at \in {"index", "agent"}
              \/ bpc'[p].at = "failed" /\ kb_op'.op \in {"get_count"} ]_vars

====
